---- MODULE Spec2Model ----
(***************************************************************************)
(* Session construction of the CloudFront log pipeline:                    *)
(* backend/log_processor/session_builder.py (SessionBuilder) driven by the  *)
(* record loop of backend/scripts/process_logs.py.                          *)
(*                                                                         *)
(* Time is counted in ticks; TicksPerSecond ticks make one second.  A      *)
(* datetime is the number of ticks since the start of the run and a         *)
(* timedelta is a (possibly negative) number of ticks.                      *)
(*                                                                         *)
(* A Python dict entry whose value is a datetime or None is modelled as a  *)
(* record field that is present (the datetime) or missing (None).  String  *)
(* valued entries hold the string or None.                                  *)
(***************************************************************************)
EXTENDS Integers, Sequences, FiniteSets, TLC

\* ---------------------------------------------------------------- bounds
MaxCalls == 3          \* records fed to add_page_view in one run
MaxTime == 2           \* timestamps range over 0..MaxTime ticks
SessionTimeout == 1    \* the configured session timeout, in ticks
TicksPerSecond == 2    \* resolution of the clock
MaxBatch == 2          \* LogLoader.batch_size ranges over 1..MaxBatch
MaxRecords == 3        \* records submitted to the loader in one behaviour
MaxLoads == 2          \* load_* calls in one behaviour
MaxFaults == 2         \* failures in one behaviour that no constraint explains

\* ---------------------------------------------------------------- inputs
None == "None"
Visitors == {"v1", "v2"}
VisitorIds == Visitors \cup {None}
Timestamps == 0..MaxTime
\* url_path, device_type and country_code of the requests in the logs
Requests == {<<"/a", "desktop", "US">>, <<"/b", "mobile", "DE">>}

VARIABLES
    session_timeout,        \* SessionBuilder.session_timeout (timedelta, in ticks)
    sessions_by_visitor,    \* SessionBuilder.sessions_by_visitor, in insertion order
    all_page_views,         \* process_logs: the entries returned by add_page_view
    pc,                     \* process_logs: "track" in the record loop, then "extracted"
    out_sessions,           \* process_logs: sessions = session_builder.get_sessions()
    out_visitors,           \* process_logs: visitors = session_builder.get_visitors()
    prior,                  \* the run before reset(): <<>> or <<[entries, sessions, visitors]>>
    batch_size,             \* LogLoader.batch_size
    db_page_views,          \* the committed rows of table page_views, in insertion order
    db_sessions,            \* the committed rows of table sessions
    db_visitors,            \* the committed rows of table visitors
    load,                   \* the locals of the load_* call that is running, or NoCall
    history,                \* the load_* calls that have returned, oldest first
    run                     \* the load_all call: its arguments and, once returned, its results

trackerVars == <<session_timeout, sessions_by_visitor, all_page_views>>
extractVars == <<pc, out_sessions, out_visitors>>
storageVars == <<db_page_views, db_sessions, db_visitors>>
loaderVars == <<batch_size, storageVars, load, history, run>>

vars == <<trackerVars, extractVars, prior, loaderVars>>

\* An enriched log entry with a timestamp.
Entry(visitor_id, timestamp, request) ==
    [visitor_id |-> visitor_id, timestamp |-> timestamp, url_path |-> request[1],
     device_type |-> request[2], country_code |-> request[3]]

\* An enriched log entry whose timestamp could not be parsed (None).
EntryNoTimestamp(visitor_id, request) ==
    [visitor_id |-> visitor_id, url_path |-> request[1],
     device_type |-> request[2], country_code |-> request[3]]

\* The request of the logs with this url_path.
RequestOf(url_path) == CHOOSE q \in Requests : q[1] = url_path

\* The entries the record loop meets: every request of every visitor at
\* every time, and one request without a visitor or without a timestamp.
LogEntries ==
    {Entry(v, t, q) : v \in Visitors, t \in Timestamps, q \in Requests}
    \cup {Entry(None, t, RequestOf("/a")) : t \in Timestamps}
    \cup {EntryNoTimestamp(v, RequestOf("/a")) : v \in VisitorIds}

\* ------------------------------------------------------- the dict helpers
\* sessions_by_visitor is a sequence of [visitor_id, sessions] items, in the
\* order the keys were inserted.
Keys(sbv) == {sbv[i].visitor_id : i \in DOMAIN sbv}

KeyIndex(sbv, visitor_id) == CHOOSE i \in DOMAIN sbv : sbv[i].visitor_id = visitor_id

\* (variant: the list of the most recently inserted key, whatever the key)
SessionsOf_latest_key(sbv, visitor_id) ==
    IF visitor_id \in Keys(sbv) THEN sbv[Len(sbv)].sessions ELSE <<>>

\* sbv[visitor_id] read without inserting: the list, or the default [].
SessionsOf(sbv, visitor_id) ==
    IF visitor_id \in Keys(sbv) THEN sbv[KeyIndex(sbv, visitor_id)].sessions ELSE <<>>

\* sbv[visitor_id] = sessions, inserting the key at the end when it is new.
SetSessions(sbv, visitor_id, sessions) ==
    IF visitor_id \in Keys(sbv)
    THEN [sbv EXCEPT ![KeyIndex(sbv, visitor_id)].sessions = sessions]
    ELSE Append(sbv, [visitor_id |-> visitor_id, sessions |-> sessions])

\* ------------------------------------------------------- SessionBuilder
\* (variant: the key leaves the visitor out)
_generate_session_id_no_visitor(visitor_id, timestamp) ==
    ToString(timestamp)

\* f"{visitor_id}:{timestamp.isoformat()}", hashed; the hash is taken to be
\* injective, so the key stands for its digest.
_generate_session_id(visitor_id, timestamp) ==
    visitor_id \o ":" \o ToString(timestamp)

\* (variant: the count of a new session starts at 0)
NewSession_count0(visitor_id, timestamp, entry) ==
    [session_id |-> _generate_session_id(visitor_id, timestamp),
     start_time |-> timestamp,
     last_activity |-> timestamp,
     page_views_count |-> 0,
     landing_page |-> entry.url_path,
     exit_page |-> entry.url_path,
     device_type |-> entry.device_type,
     country_code |-> entry.country_code]

\* The session dict appended for the first record of a session.
NewSession(visitor_id, timestamp, entry) ==
    [session_id |-> _generate_session_id(visitor_id, timestamp),
     start_time |-> timestamp,
     last_activity |-> timestamp,
     page_views_count |-> 1,
     landing_page |-> entry.url_path,
     exit_page |-> entry.url_path,
     device_type |-> entry.device_type,
     country_code |-> entry.country_code]

\* (variant: the boundary is exclusive)
WithinTimeout_strict(time_since_last_activity, timeout) ==
    time_since_last_activity < timeout

\* (variant: the boundary is one tick late)
WithinTimeout_late(time_since_last_activity, timeout) ==
    time_since_last_activity <= timeout + 1

\* (variant: a record older than the session by more than the timeout
\* is not taken into it)
WithinTimeout_abs(time_since_last_activity, timeout) ==
    /\ time_since_last_activity <= timeout
    /\ 0 - time_since_last_activity <= timeout

\* time_since_last_activity <= self.session_timeout
WithinTimeout(time_since_last_activity, timeout) ==
    time_since_last_activity <= timeout

\* (variant: the session attributes are refreshed from every record)
ContinueSession_refresh(current_session, timestamp, entry) ==
    [current_session EXCEPT !.last_activity = timestamp,
                            !.page_views_count = @ + 1,
                            !.exit_page = entry.url_path,
                            !.device_type = entry.device_type,
                            !.country_code = entry.country_code]

\* (variant: the exit page is not updated)
ContinueSession_no_exit(current_session, timestamp, entry) ==
    [current_session EXCEPT !.last_activity = timestamp,
                            !.page_views_count = @ + 1]

\* "Continue existing session": the in-place update of the current session.
ContinueSession(current_session, timestamp, entry) ==
    [current_session EXCEPT !.last_activity = timestamp,
                            !.page_views_count = @ + 1,
                            !.exit_page = entry.url_path]

\* (variant: the current session is the visitor's first, not the last)
_get_or_create_session_first(sbv, timeout, visitor_id, timestamp, entry) ==
    LET visitor_sessions == SessionsOf(sbv, visitor_id)
        fresh == NewSession(visitor_id, timestamp, entry)
    IN  IF visitor_sessions = <<>>
        THEN [sbv |-> SetSessions(sbv, visitor_id, <<fresh>>),
              session_id |-> fresh.session_id]
        ELSE LET current_session == visitor_sessions[1]
                 time_since_last_activity == timestamp - current_session.last_activity
             IN  IF WithinTimeout(time_since_last_activity, timeout)
                 THEN [sbv |-> SetSessions(sbv, visitor_id,
                                  [visitor_sessions EXCEPT
                                      ![1] = ContinueSession(current_session, timestamp, entry)]),
                       session_id |-> current_session.session_id]
                 ELSE [sbv |-> SetSessions(sbv, visitor_id, Append(visitor_sessions, fresh)),
                       session_id |-> fresh.session_id]

\* Returns the new tracker state and the session id the method returns.
_get_or_create_session(sbv, timeout, visitor_id, timestamp, entry) ==
    LET visitor_sessions == SessionsOf(sbv, visitor_id)
        fresh == NewSession(visitor_id, timestamp, entry)
    IN  IF visitor_sessions = <<>>
        THEN [sbv |-> SetSessions(sbv, visitor_id, <<fresh>>),
              session_id |-> fresh.session_id]
        ELSE LET n == Len(visitor_sessions)
                 current_session == visitor_sessions[n]
                 time_since_last_activity == timestamp - current_session.last_activity
             IN  IF WithinTimeout(time_since_last_activity, timeout)
                 THEN [sbv |-> SetSessions(sbv, visitor_id,
                                  [visitor_sessions EXCEPT
                                      ![n] = ContinueSession(current_session, timestamp, entry)]),
                       session_id |-> current_session.session_id]
                 ELSE [sbv |-> SetSessions(sbv, visitor_id, Append(visitor_sessions, fresh)),
                       session_id |-> fresh.session_id]

\* ------------------------------------------------------- the extractor
\* (variant: the quotient is rounded to the nearest whole number)
IntTrunc_round(n, d) ==
    IF n >= 0 THEN (2 * n + d) \div (2 * d) ELSE -((2 * (-n) + d) \div (2 * d))

\* int(x) for the quotient n / d of a timedelta: truncation toward zero.
IntTrunc(n, d) == IF n >= 0 THEN n \div d ELSE -((-n) \div d)

\* (variant: the operands are swapped)
Duration_swapped(session) == session.start_time - session.last_activity

\* duration = session["last_activity"] - session["start_time"]
Duration(session) == session.last_activity - session.start_time

\* The dict get_sessions appends for one tracked session.
SessionRecord(visitor_id, session) ==
    [session_id |-> session.session_id,
     visitor_id |-> visitor_id,
     start_time |-> session.start_time,
     end_time |-> session.last_activity,
     duration_seconds |-> IntTrunc(Duration(session), TicksPerSecond),
     page_views_count |-> session.page_views_count,
     landing_page |-> session.landing_page,
     exit_page |-> session.exit_page,
     device_type |-> session.device_type,
     country_code |-> session.country_code]

\* (variant: only the latest session of the visitor is emitted)
SessionRecords_latest_only(visitor_id, sessions) ==
    IF sessions = <<>> THEN <<>>
    ELSE <<SessionRecord(visitor_id, sessions[Len(sessions)])>>

\* The inner loop of get_sessions: the records of one visitor's sessions.
RECURSIVE SessionRecords(_, _)
SessionRecords(visitor_id, sessions) ==
    IF sessions = <<>> THEN <<>>
    ELSE <<SessionRecord(visitor_id, Head(sessions))>>
         \o SessionRecords(visitor_id, Tail(sessions))

RECURSIVE get_sessions(_)
get_sessions(sbv) ==
    IF sbv = <<>> THEN <<>>
    ELSE SessionRecords(Head(sbv).visitor_id, Head(sbv).sessions) \o get_sessions(Tail(sbv))

\* sum(s["page_views_count"] for s in sessions)
RECURSIVE SumPageViews(_)
SumPageViews(sessions) ==
    IF sessions = <<>> THEN 0
    ELSE Head(sessions).page_views_count + SumPageViews(Tail(sessions))

\* (variant: total_page_views counts the sessions)
VisitorRecord_count_sessions(visitor_id, sessions) ==
    [visitor_id |-> visitor_id,
     first_seen |-> sessions[1].start_time,
     last_seen |-> sessions[Len(sessions)].last_activity,
     total_visits |-> Len(sessions),
     total_page_views |-> Len(sessions)]

\* (variant: last_seen is the start of the latest session)
VisitorRecord_last_start(visitor_id, sessions) ==
    [visitor_id |-> visitor_id,
     first_seen |-> sessions[1].start_time,
     last_seen |-> sessions[Len(sessions)].start_time,
     total_visits |-> Len(sessions),
     total_page_views |-> SumPageViews(sessions)]

\* The dict get_visitors appends for one visitor with at least one session.
VisitorRecord(visitor_id, sessions) ==
    LET first_session == sessions[1]
        last_session == sessions[Len(sessions)]
    IN  [visitor_id |-> visitor_id,
         first_seen |-> first_session.start_time,
         last_seen |-> last_session.last_activity,
         total_visits |-> Len(sessions),
         total_page_views |-> SumPageViews(sessions)]

\* (variant: a visitor with a single session is skipped)
RECURSIVE get_visitors_skip_single(_)
get_visitors_skip_single(sbv) ==
    IF sbv = <<>> THEN <<>>
    ELSE (IF Len(Head(sbv).sessions) <= 1 THEN <<>>
          ELSE <<VisitorRecord(Head(sbv).visitor_id, Head(sbv).sessions)>>)
         \o get_visitors_skip_single(Tail(sbv))

RECURSIVE get_visitors(_)
get_visitors(sbv) ==
    IF sbv = <<>> THEN <<>>
    ELSE (IF Head(sbv).sessions = <<>> THEN <<>>
          ELSE <<VisitorRecord(Head(sbv).visitor_id, Head(sbv).sessions)>>)
         \o get_visitors(Tail(sbv))

\* (variant: only the timestamp is tested)
IsSessionless_timestamp_only(entry) ==
    "timestamp" \notin DOMAIN entry

\* `not visitor_id or not timestamp`: None and "" are falsy, a datetime never is.
IsSessionless(entry) ==
    entry.visitor_id \in {None, ""} \/ "timestamp" \notin DOMAIN entry

\* (variant: the record is annotated with None whatever the session)
WithSessionId_none(entry, session_id) == [session_id |-> None] @@ entry

\* entry["session_id"] = session_id
WithSessionId(entry, session_id) == [session_id |-> session_id] @@ entry

\* One iteration of the record loop: add_page_view(entry), then the returned
\* entry is appended to all_page_views.
add_page_view(entry) ==
    /\ pc = "track"
    /\ Len(all_page_views) < MaxCalls
    /\ IF IsSessionless(entry)
       THEN /\ all_page_views' = Append(all_page_views, WithSessionId(entry, None))
            /\ UNCHANGED sessions_by_visitor
       ELSE LET r == _get_or_create_session(sessions_by_visitor, session_timeout,
                                            entry.visitor_id, entry.timestamp, entry)
            IN  /\ sessions_by_visitor' = r.sbv
                /\ all_page_views' = Append(all_page_views, WithSessionId(entry, r.session_id))
    /\ UNCHANGED <<session_timeout, extractVars, prior, loaderVars>>

\* The end of the record loop: sessions = get_sessions(), visitors =
\* get_visitors().  Neither method assigns to the tracker.
extract ==
    /\ out_sessions' = get_sessions(sessions_by_visitor)
    /\ out_visitors' = get_visitors(sessions_by_visitor)
    /\ pc' = "extracted"
    /\ UNCHANGED <<trackerVars, prior, loaderVars>>

\* (variant: nothing is cleared)
Cleared_nothing(sbv) == sbv

\* self.sessions_by_visitor.clear()
Cleared(sbv) == <<>>

\* An entry as it was before add_page_view annotated it.
WithoutSessionId(entry) == [k \in DOMAIN entry \ {"session_id"} |-> entry[k]]

\* The first run ends: its entries and outputs are kept, reset() is called
\* and a new list of page views is started.
reset ==
    /\ pc = "track"
    /\ prior = <<>>
    /\ prior' = <<[entries |-> all_page_views,
                   sessions |-> get_sessions(sessions_by_visitor),
                   visitors |-> get_visitors(sessions_by_visitor)]>>
    /\ sessions_by_visitor' = Cleared(sessions_by_visitor)
    /\ all_page_views' = <<>>
    /\ UNCHANGED <<session_timeout, extractVars, loaderVars>>

\* The second run: the next record of the first run is added again.
replay ==
    /\ prior # <<>>
    /\ Len(all_page_views) < Len(prior[1].entries)
    /\ add_page_view(WithoutSessionId(prior[1].entries[Len(all_page_views) + 1]))

\* No load_* call is running.
NoCall == [op |-> "none"]

\* load_all has not been called.
NoRun == [state |-> "none"]

\* Empty tables, and no call of the loader yet.
LoaderIdle ==
    /\ db_page_views = <<>>
    /\ db_sessions = <<>>
    /\ db_visitors = <<>>
    /\ load = NoCall
    /\ history = <<>>
    /\ run = NoRun

\* SessionBuilder() as process_logs constructs it, before the record loop.
Constructed ==
    /\ session_timeout = SessionTimeout
    /\ sessions_by_visitor = <<>>
    /\ all_page_views = <<>>
    /\ pc = "track"
    /\ out_sessions = <<>>
    /\ out_visitors = <<>>
    /\ prior = <<>>

Init ==
    /\ Constructed
    /\ batch_size = MaxBatch
    /\ LoaderIdle

Next == \E entry \in LogEntries : add_page_view(entry)

Spec == Init /\ [][Next]_vars

\* -------------------------------------------- the configured timeout
\* SessionBuilder(session_timeout_minutes: int = 30)
DefaultSessionTimeoutMinutes == 30

\* timedelta(minutes = session_timeout_minutes), in ticks.
timedelta_minutes(session_timeout_minutes) ==
    session_timeout_minutes * 60 * TicksPerSecond

\* The --session-timeout values of the runs: one minute, and the default.
ConfiguredMinutes == {1, DefaultSessionTimeoutMinutes}

\* SessionBuilder(session_timeout_minutes = m) for a configured m.
InitConfigured ==
    /\ \E m \in ConfiguredMinutes : session_timeout = timedelta_minutes(m)
    /\ sessions_by_visitor = <<>>
    /\ all_page_views = <<>>
    /\ pc = "track"
    /\ out_sessions = <<>>
    /\ out_visitors = <<>>
    /\ prior = <<>>
    /\ batch_size = MaxBatch
    /\ LoaderIdle

\* Timestamps around the timeout: the start, exactly one timeout later,
\* one tick and one second after that, and one timeout and a second
\* after the first timeout.
BoundaryTimes(timeout) ==
    {0, timeout, timeout + 1, timeout + TicksPerSecond, 2 * timeout + TicksPerSecond}

\* The record loop over entries at these timestamps.
NextConfigured ==
    \E v \in Visitors, t \in BoundaryTimes(session_timeout) :
        add_page_view(Entry(v, t, RequestOf("/a")))

SpecConfigured == InitConfigured /\ [][NextConfigured]_vars

\* The record loop followed by the extraction of sessions and visitors.
NextExtract ==
    \/ Next
    \/ extract

SpecExtract == Init /\ [][NextExtract]_vars

\* A run over records that carry a timestamp, reset(), and the same records
\* again.
NextReset ==
    \/ /\ prior = <<>>
       /\ \E entry \in LogEntries :
             "timestamp" \in DOMAIN entry /\ add_page_view(entry)
    \/ reset
    \/ replay

SpecReset == Init /\ [][NextReset]_vars

\* The entries of a run that is reset and repeated with records of every
\* kind: requests of "/a" by each visitor at each time, one without a
\* visitor and one without a timestamp.
ResetEntries ==
    {Entry(v, t, RequestOf("/a")) : v \in Visitors, t \in Timestamps}
    \cup {Entry(None, 0, RequestOf("/a")), EntryNoTimestamp("v1", RequestOf("/a"))}

NextResetAny ==
    \/ /\ prior = <<>>
       /\ \E entry \in ResetEntries : add_page_view(entry)
    \/ reset
    \/ replay

SpecResetAny == Init /\ [][NextResetAny]_vars

\* =================================================================
\* backend/log_processor/loader.py (LogLoader) over the tables of
\* backend/database/models.py
\* =================================================================
\* The three tables as one value.
Storage == [page_views |-> db_page_views, sessions |-> db_sessions,
            visitors |-> db_visitors]

\* The String columns of PageView that the model carries.
PageViewColumns == {"visitor_id", "session_id", "url_path", "device_type", "country_code"}

\* The record load_page_views builds from a page view with pv.get(column): a
\* missing key gives None.  The timestamp column is present or missing (None).
PageViewRow(pv) ==
    [k \in PageViewColumns \cup ({"timestamp"} \cap DOMAIN pv) |->
        IF k \in DOMAIN pv THEN pv[k] ELSE None]

\* PageView.timestamp and PageView.url_path are nullable=False.
PageViewViolates(record) ==
    "timestamp" \notin DOMAIN record \/ record.url_path = None

\* (variant: the slice runs one record into the next chunk)
Chunk_overlap(input, i, size) ==
    SubSeq(input, i + 1, IF i + size + 1 <= Len(input) THEN i + size + 1 ELSE Len(input))

\* batch = input[i : i + batch_size]
Chunk(input, i, size) ==
    SubSeq(input, i + 1, IF i + size <= Len(input) THEN i + size ELSE Len(input))

\* records: the rows prepared from the chunk at offset i.
Records(input, i, size) ==
    LET batch == Chunk(input, i, size)
    IN  [n \in DOMAIN batch |-> PageViewRow(batch[n])]

\* The locals of a load_* call that has just passed the empty-input test.
\* db_at_call remembers the tables at the call; chunks counts the passes of
\* the chunk loop, attempts the inserts and upserts that were executed, and
\* commits and rollbacks the calls of db_session.commit() and rollback().
StartCall(op, input) ==
    [op |-> op, input |-> input, i |-> 0, j |-> 0, inserted_count |-> 0,
     faults |-> 0, failed_chunks |-> 0, failed_records |-> 0,
     chunks |-> 0, attempts |-> 0, commits |-> 0, rollbacks |-> 0,
     tries |-> [k \in DOMAIN input |-> 0],
     db_at_call |-> Storage]

\* What a call leaves behind when it returns inserted_count.
Finished(call) ==
    [op |-> call.op, input |-> call.input, returned |-> call.inserted_count,
     faults |-> call.faults, failed_chunks |-> call.failed_chunks,
     failed_records |-> call.failed_records,
     chunks |-> call.chunks, attempts |-> call.attempts,
     commits |-> call.commits, rollbacks |-> call.rollbacks,
     tries |-> call.tries,
     db_at_call |-> call.db_at_call, db_at_return |-> Storage]

\* (variant: the except branch does not roll back)
Tried_no_rollback(call, committed) ==
    [call EXCEPT !.attempts = @ + 1,
                 !.commits = @ + (IF committed THEN 1 ELSE 0)]

\* The call after one more insert or upsert was executed and then committed
\* (try) or rolled back (except).
Tried(call, committed) ==
    [call EXCEPT !.attempts = @ + 1,
                 !.commits = @ + (IF committed THEN 1 ELSE 0),
                 !.rollbacks = @ + (IF committed THEN 0 ELSE 1)]

\* The call after an insert or upsert of the records first..last of its
\* input was executed: tries counts, for each record, the attempts it was
\* part of.
Attempted(call, first, last) ==
    [call EXCEPT !.tries = [k \in DOMAIN @ |->
                               IF first <= k /\ k <= last THEN @[k] + 1 ELSE @[k]]]

\* The call after one more pass of the chunk loop has begun.
NextChunk(call) == [call EXCEPT !.chunks = @ + 1]

\* The number of records handed to the loader so far.
RECURSIVE Submitted(_)
Submitted(calls) ==
    IF calls = <<>> THEN 0 ELSE Len(Head(calls).input) + Submitted(Tail(calls))

\* The lists of at most n elements of S.
Lists(S, n) == UNION {[1..k -> S] : k \in 0..n}

\* The call repeats the call before it: the same loader over the same list.
Repeats(op, input) ==
    /\ history # <<>>
    /\ history[Len(history)].op = op
    /\ history[Len(history)].input = input

\* (variant: an empty input is committed as an empty transaction)
EmptyReturn_commit(op, input) ==
    [Finished(StartCall(op, input)) EXCEPT !.commits = 1]

\* if not input: return 0
EmptyReturn(op, input) == Finished(StartCall(op, input))

\* The entry of load_*(input): an empty input returns 0 at once, any other
\* input enters the chunk loop.
Enter(op, input) ==
    IF input = <<>>
    THEN /\ history' = Append(history, EmptyReturn(op, input))
         /\ load' = load
    ELSE /\ load' = StartCall(op, input)
         /\ history' = history

\* A call of load_*(input) on its own.  The call submits new records, or
\* repeats the call before it.
Call(op, input) ==
    /\ load = NoCall
    /\ Len(history) < MaxLoads
    /\ Submitted(history) + Len(input) <= MaxRecords \/ Repeats(op, input)
    /\ Enter(op, input)
    /\ UNCHANGED <<trackerVars, extractVars, prior, run, batch_size, storageVars>>

\* The failures so far that no constraint explains.
RECURSIVE Faults(_)
Faults(calls) ==
    IF calls = <<>> THEN 0 ELSE Head(calls).faults + Faults(Tail(calls))

\* An attempt fails when the database rejects it, or for a reason that no
\* constraint explains (connection lost, commit refused); the latter is
\* counted in faults.
Outcomes(rejected) ==
    IF rejected THEN {[failed |-> TRUE, fault |-> 0]}
    ELSE {[failed |-> FALSE, fault |-> 0]} \cup
         (IF Faults(history) + load.faults < MaxFaults
          THEN {[failed |-> TRUE, fault |-> 1]} ELSE {})

load_page_views(page_views) == Call("load_page_views", page_views)

\* (variant: inserted_count += self.batch_size)
Counted_batch_size(records) == batch_size

\* inserted_count += len(records)
Counted(records) == Len(records)

\* (variant: a failed chunk is given up, as the upserts do)
AfterChunkError_skip(call) ==
    [call EXCEPT !.i = @ + batch_size, !.failed_chunks = @ + 1]

\* except: rollback, then the records of the chunk one by one
AfterChunkError(call) ==
    [call EXCEPT !.j = 1, !.failed_chunks = @ + 1]

\* (variant: no rollback; the rows flushed before the rejected one stay in
\* the transaction and are committed with the next commit)
RolledBack_flushed(table, records) ==
    LET bad == {n \in DOMAIN records : PageViewViolates(records[n])}
    IN  IF bad = {} THEN table
        ELSE table \o SubSeq(records, 1, (CHOOSE n \in bad : \A m \in bad : n <= m) - 1)

\* self.db_session.rollback(): the table holds none of the rows of the
\* failed insert.
RolledBack(table, records) == table

\* One pass of the chunk loop of load_page_views: bulk_insert_mappings of
\* the chunk and commit; on an exception rollback and the fallback.
insert_chunk ==
    /\ load.op = "load_page_views"
    /\ load.j = 0
    /\ load.i < Len(load.input)
    /\ LET records == Records(load.input, load.i, batch_size)
           rejected == \E n \in DOMAIN records : PageViewViolates(records[n])
       IN  \E o \in Outcomes(rejected) :
              IF o.failed
              THEN /\ db_page_views' = RolledBack(db_page_views, records)
                   /\ load' = Tried(NextChunk(Attempted([AfterChunkError(load)
                                                   EXCEPT !.faults = @ + o.fault],
                                                   load.i + 1, load.i + Len(records))), FALSE)
              ELSE /\ db_page_views' = db_page_views \o records
                   /\ load' = Tried(NextChunk(Attempted([load EXCEPT !.i = @ + batch_size,
                                                 !.inserted_count = @ + Counted(records)],
                                                 load.i + 1, load.i + Len(records))),
                                    TRUE)
    /\ UNCHANGED <<trackerVars, extractVars, prior, run, batch_size,
                   db_sessions, db_visitors, history>>

\* (variant: the fallback tries the same record again)
AfterRecord_again(call) == call

\* The call after record j of the chunk has been tried alone: the next
\* record, or the next chunk.
AfterRecord(call) ==
    IF call.j < Len(Chunk(call.input, call.i, batch_size))
    THEN [call EXCEPT !.j = @ + 1]
    ELSE [call EXCEPT !.j = 0, !.i = @ + batch_size]

\* One pass of the fallback loop: bulk_insert_mappings of one record and
\* commit; on an exception rollback, and the record is dropped.
insert_record ==
    /\ load.op = "load_page_views"
    /\ load.j > 0
    /\ LET record == Records(load.input, load.i, batch_size)[load.j]
       IN  \E o \in Outcomes(PageViewViolates(record)) :
              IF o.failed
              THEN /\ db_page_views' = RolledBack(db_page_views, <<record>>)
                   /\ load' = Tried(Attempted([AfterRecord(load)
                                                   EXCEPT !.failed_records = @ + 1,
                                                          !.faults = @ + o.fault],
                                                load.i + load.j, load.i + load.j),
                                    FALSE)
              ELSE /\ db_page_views' = Append(db_page_views, record)
                   /\ load' = Tried(Attempted([AfterRecord(load)
                                                   EXCEPT !.inserted_count = @ + 1],
                                                load.i + load.j, load.i + load.j),
                                    TRUE)
    /\ UNCHANGED <<trackerVars, extractVars, prior, run, batch_size,
                   db_sessions, db_visitors, history>>

\* The chunk loop is over: return inserted_count.
load_return ==
    /\ load # NoCall
    /\ load.j = 0
    /\ load.i >= Len(load.input)
    /\ history' = Append(history, Finished(load))
    /\ load' = NoCall
    /\ UNCHANGED <<trackerVars, extractVars, prior, run, batch_size, storageVars>>

\* The page views handed to load_page_views: entries as add_page_view
\* returns them, with a timestamp and a session or with neither.
PageViewInputs ==
    {WithSessionId(Entry("v1", 0, q), _generate_session_id("v1", 0)) : q \in Requests}
    \cup {WithSessionId(EntryNoTimestamp("v1", RequestOf("/a")), None)}

\* The lists load_page_views is called with.
PageViewLists == Lists(PageViewInputs, MaxRecords)

\* A loader over empty tables, with any batch size.
InitLoad ==
    /\ Constructed
    /\ batch_size \in 1..MaxBatch
    /\ LoaderIdle

NextLoadPageViews ==
    \/ \E page_views \in PageViewLists : load_page_views(page_views)
    \/ insert_chunk
    \/ insert_record
    \/ load_return

SpecLoadPageViews == InitLoad /\ [][NextLoadPageViews]_vars

\* ------------------------------------------------------------ the upserts
\* (variant: the stored row is replaced by the submitted one)
OnConflictDoUpdate_replace(row, excluded, set_) == excluded

\* (variant: the counters of set_ are added to the stored ones)
OnConflictDoUpdate_accumulate(row, excluded, set_) ==
    [k \in DOMAIN row |->
        IF k \in set_ \cap {"total_visits", "total_page_views"}
        THEN row[k] + excluded[k]
        ELSE IF k \in set_ THEN excluded[k] ELSE row[k]]

\* INSERT ... ON CONFLICT (key) DO UPDATE SET column = excluded.column for
\* the columns of set_: the row that holds the key takes the submitted
\* values of those columns and keeps every other column.
OnConflictDoUpdate(row, excluded, set_) ==
    [k \in DOMAIN row |-> IF k \in set_ THEN excluded[k] ELSE row[k]]

\* The table holds a row with this key.
HasKey(table, key, id) == \E n \in DOMAIN table : table[n][key] = id

RowIndex(table, key, id) == CHOOSE n \in DOMAIN table : table[n][key] = id

\* (variant: a plain INSERT without the conflict clause)
UpsertRow_insert(table, key, set_, record) == Append(table, record)

\* One row of the VALUES list: inserted, or merged into the row that
\* holds its key.
UpsertRow(table, key, set_, record) ==
    IF HasKey(table, key, record[key])
    THEN [table EXCEPT ![RowIndex(table, key, record[key])] =
                           OnConflictDoUpdate(@, record, set_)]
    ELSE Append(table, record)

\* The statement over the whole batch.
RECURSIVE Upsert(_, _, _, _)
Upsert(table, key, set_, batch) ==
    IF batch = <<>> THEN table
    ELSE Upsert(UpsertRow(table, key, set_, Head(batch)), key, set_, Tail(batch))

\* PostgreSQL refuses an ON CONFLICT DO UPDATE statement whose VALUES list
\* holds the same key twice ("cannot affect row a second time").
AffectsRowTwice(batch, key) ==
    \E a, b \in DOMAIN batch : a # b /\ batch[a][key] = batch[b][key]

\* set_ of load_sessions
SessionSet == {"end_time", "duration_seconds", "page_views_count", "exit_page"}

\* set_ of load_visitors
VisitorSet == {"last_seen", "total_visits", "total_page_views"}

\* Session.session_id, visitor_id and start_time are nullable=False.
SessionViolates(record) ==
    \/ record.session_id = None
    \/ record.visitor_id = None
    \/ "start_time" \notin DOMAIN record

\* Visitor.visitor_id, first_seen and last_seen are nullable=False.
VisitorViolates(record) ==
    \/ record.visitor_id = None
    \/ "first_seen" \notin DOMAIN record
    \/ "last_seen" \notin DOMAIN record

\* (variant: the loop is left at the first failed chunk)
AfterUpsertError_stop(call) ==
    [call EXCEPT !.i = Len(call.input), !.failed_chunks = @ + 1]

\* except: rollback; the chunk is given up and the loop goes on
AfterUpsertError(call) ==
    [call EXCEPT !.i = @ + batch_size, !.failed_chunks = @ + 1]

\* (variant: inserted_count += self.batch_size)
AfterUpsert_batch_size(call, batch) ==
    [call EXCEPT !.i = @ + batch_size, !.inserted_count = @ + batch_size]

\* (variant: the committed batch is deleted from the list that was passed)
AfterUpsert_consume(call, batch) ==
    [call EXCEPT !.input = SubSeq(@, Len(batch) + 1, Len(@)),
                 !.inserted_count = @ + Len(batch)]

\* execute, commit, inserted_count += len(batch)
AfterUpsert(call, batch) ==
    [call EXCEPT !.i = @ + batch_size, !.inserted_count = @ + Len(batch)]

load_sessions(sessions) == Call("load_sessions", sessions)

\* One pass of the chunk loop of load_sessions.
upsert_sessions ==
    /\ load.op = "load_sessions"
    /\ load.i < Len(load.input)
    /\ LET batch == Chunk(load.input, load.i, batch_size)
           rejected == \/ AffectsRowTwice(batch, "session_id")
                       \/ \E n \in DOMAIN batch : SessionViolates(batch[n])
       IN  \E o \in Outcomes(rejected) :
              IF o.failed
              THEN /\ db_sessions' = db_sessions
                   /\ load' = Tried(NextChunk(Attempted([AfterUpsertError(load)
                                                   EXCEPT !.faults = @ + o.fault],
                                                   load.i + 1, load.i + Len(batch))), FALSE)
              ELSE /\ db_sessions' = Upsert(db_sessions, "session_id", SessionSet, batch)
                   /\ load' = Tried(NextChunk(Attempted(AfterUpsert(load, batch),
                                                   load.i + 1, load.i + Len(batch))), TRUE)
    /\ UNCHANGED <<trackerVars, extractVars, prior, run, batch_size,
                   db_page_views, db_visitors, history>>

load_visitors(visitors) == Call("load_visitors", visitors)

\* One pass of the chunk loop of load_visitors.
upsert_visitors ==
    /\ load.op = "load_visitors"
    /\ load.i < Len(load.input)
    /\ LET batch == Chunk(load.input, load.i, batch_size)
           rejected == \/ AffectsRowTwice(batch, "visitor_id")
                       \/ \E n \in DOMAIN batch : VisitorViolates(batch[n])
       IN  \E o \in Outcomes(rejected) :
              IF o.failed
              THEN /\ db_visitors' = db_visitors
                   /\ load' = Tried(NextChunk(Attempted([AfterUpsertError(load)
                                                   EXCEPT !.faults = @ + o.fault],
                                                   load.i + 1, load.i + Len(batch))), FALSE)
              ELSE /\ db_visitors' = Upsert(db_visitors, "visitor_id", VisitorSet, batch)
                   /\ load' = Tried(NextChunk(Attempted(AfterUpsert(load, batch),
                                                   load.i + 1, load.i + Len(batch))), TRUE)
    /\ UNCHANGED <<trackerVars, extractVars, prior, run, batch_size,
                   db_page_views, db_sessions, history>>

\* The session of visitor_id that starts at timestamp on url_path.
SessionAtStart(visitor_id, timestamp, url_path) ==
    NewSession(visitor_id, timestamp, Entry(visitor_id, timestamp, RequestOf(url_path)))

\* That session after a second page view one tick later.
SessionGrown(visitor_id, timestamp, url_path, next_path) ==
    ContinueSession(SessionAtStart(visitor_id, timestamp, url_path), timestamp + 1,
                    Entry(visitor_id, timestamp + 1, RequestOf(next_path)))

\* The session records handed to load_sessions: a session of v1, a
\* session of v2, and a later and longer session that carries the
\* session_id of the first.
SessionInputs ==
    {SessionRecord("v1", SessionAtStart("v1", 0, "/a")),
     SessionRecord("v2", SessionAtStart("v2", 0, "/a")),
     [SessionRecord("v2", SessionGrown("v2", 1, "/b", "/b"))
        EXCEPT !.session_id = _generate_session_id("v1", 0)]}

\* The visitor records handed to load_visitors: v1 as runs over different
\* logs emit it, and v2.
VisitorInputs ==
    {VisitorRecord("v1", <<SessionAtStart("v1", 0, "/a")>>),
     VisitorRecord("v1", <<SessionAtStart("v1", 1, "/b"), SessionAtStart("v1", MaxTime, "/a")>>),
     VisitorRecord("v2", <<SessionAtStart("v2", 0, "/a")>>)}

\* The lists load_sessions and load_visitors are called with.
SessionLists == Lists(SessionInputs, MaxRecords)
VisitorLists == Lists(VisitorInputs, MaxRecords)

NextLoadSessions ==
    \/ \E sessions \in SessionLists : load_sessions(sessions)
    \/ upsert_sessions
    \/ load_return

SpecLoadSessions == InitLoad /\ [][NextLoadSessions]_vars

NextLoadVisitors ==
    \/ \E visitors \in VisitorLists : load_visitors(visitors)
    \/ upsert_visitors
    \/ load_return

SpecLoadVisitors == InitLoad /\ [][NextLoadVisitors]_vars

\* ---------------------------------------------------------------- load_all
\* (variant: the visitors are loaded before the sessions)
PhaseCall_visitors_first(args, k) ==
    IF k = 1 THEN [op |-> "load_page_views", input |-> args.page_views]
    ELSE IF k = 2 THEN [op |-> "load_visitors", input |-> args.visitors]
    ELSE [op |-> "load_sessions", input |-> args.sessions]

\* The k-th loader call of load_all, in the order of the results dict.
PhaseCall(args, k) ==
    IF k = 1 THEN [op |-> "load_page_views", input |-> args.page_views]
    ELSE IF k = 2 THEN [op |-> "load_sessions", input |-> args.sessions]
    ELSE [op |-> "load_visitors", input |-> args.visitors]

\* The loader calls of load_all that have returned.
Phase == Len(history) - run.base

\* load_all(page_views, sessions, visitors) is called.
load_all(page_views, sessions, visitors) ==
    /\ run = NoRun
    /\ load = NoCall
    /\ run' = [state |-> "running", page_views |-> page_views, sessions |-> sessions,
               visitors |-> visitors, base |-> Len(history)]
    /\ UNCHANGED <<trackerVars, extractVars, prior, batch_size, storageVars, load, history>>

\* load_all calls its next loader.
load_all_call ==
    /\ run.state = "running"
    /\ load = NoCall
    /\ Phase < 3
    /\ Enter(PhaseCall(run, Phase + 1).op, PhaseCall(run, Phase + 1).input)
    /\ UNCHANGED <<trackerVars, extractVars, prior, batch_size, storageVars, run>>

\* The results dict is complete: load_all returns it.
load_all_return ==
    /\ run.state = "running"
    /\ load = NoCall
    /\ Phase = 3
    /\ run' = [state |-> "returned", page_views |-> run.page_views,
               sessions |-> run.sessions, visitors |-> run.visitors, base |-> run.base,
               results |-> [page_views |-> history[run.base + 1].returned,
                            sessions |-> history[run.base + 2].returned,
                            visitors |-> history[run.base + 3].returned]]
    /\ UNCHANGED <<trackerVars, extractVars, prior, batch_size, storageVars, load, history>>

\* The arguments load_all is called with.
LoadAllArguments ==
    {a \in PageViewLists \X SessionLists \X VisitorLists :
        Len(a[1]) + Len(a[2]) + Len(a[3]) <= MaxRecords}

NextLoadAll ==
    \/ run = NoRun /\ \E a \in LoadAllArguments : load_all(a[1], a[2], a[3])
    \/ load_all_call
    \/ insert_chunk
    \/ insert_record
    \/ upsert_sessions
    \/ upsert_visitors
    \/ load_return
    \/ load_all_return

SpecLoadAll == InitLoad /\ [][NextLoadAll]_vars

\* The arguments of the runs followed to their end: page views that the
\* table accepts or rejects, and one session and one visitor, repeated.
FairLoadAllArguments ==
    {a \in Lists({pv \in PageViewInputs : pv.url_path = "/a"}, MaxRecords)
           \X Lists({SessionRecord("v1", SessionAtStart("v1", 0, "/a"))}, MaxRecords)
           \X Lists({VisitorRecord("v1", <<SessionAtStart("v1", 0, "/a")>>)}, MaxRecords) :
        Len(a[1]) + Len(a[2]) + Len(a[3]) <= MaxRecords}

NextLoadAllFair ==
    \/ run = NoRun /\ \E a \in FairLoadAllArguments : load_all(a[1], a[2], a[3])
    \/ load_all_call
    \/ insert_chunk
    \/ insert_record
    \/ upsert_sessions
    \/ upsert_visitors
    \/ load_return
    \/ load_all_return

\* ------------------------------------------------------- the pipeline
\* The entries of the log files of one run of the pipeline: requests by
\* v1 at each time and by v2, one without a visitor and one without a
\* timestamp.
PipelineEntries ==
    {Entry("v1", t, RequestOf("/a")) : t \in Timestamps}
    \cup {Entry("v2", 0, RequestOf("/b")),
          Entry(None, 0, RequestOf("/a")),
          EntryNoTimestamp("v1", RequestOf("/a"))}

\* (variant: only the page views that got a session are handed over)
pipeline_load_with_session ==
    /\ pc = "extracted"
    /\ load_all(SelectSeq(all_page_views, LAMBDA e : e.session_id # None),
                out_sessions, out_visitors)

\* results = loader.load_all(all_page_views, sessions, visitors)
pipeline_load ==
    /\ pc = "extracted"
    /\ load_all(all_page_views, out_sessions, out_visitors)

\* process_local_files: the record loop, the extraction, and load_all
\* with its three loaders.
NextPipeline ==
    \/ \E entry \in PipelineEntries : add_page_view(entry)
    \/ pc = "track" /\ extract
    \/ pipeline_load
    \/ load_all_call
    \/ insert_chunk
    \/ insert_record
    \/ upsert_sessions
    \/ upsert_visitors
    \/ load_return
    \/ load_all_return

SpecPipeline == Init /\ [][NextPipeline]_vars

\* The loader is a sequential program: whenever it can take a step, it does.
FairSpecLoadAll == InitLoad /\ [][NextLoadAllFair]_vars /\ WF_vars(NextLoadAllFair)

\* =================================================================
\* Properties
\* =================================================================
\* The sessions the tracker holds for visitor v.
Tracked(v) == SessionsOf(sessions_by_visitor, v)

\* Entry e carries visitor v and a timestamp.
IsRecordOf(e, v) == "timestamp" \in DOMAIN e /\ e.visitor_id = v

\* The returned entries of visitor v that carry a timestamp, in call order.
RecordsOf(v) == SelectSeq(all_page_views, LAMBDA e : IsRecordOf(e, v))

\* The entry returned by the most recent call.
LastEntry == all_page_views[Len(all_page_views)]

\* The step is one call of add_page_view.
Called == Len(all_page_views') = Len(all_page_views) + 1

\* v's records arrived in non-decreasing timestamp order.
InOrder(v) ==
    LET r == RecordsOf(v)
    IN  \A i \in 1..(Len(r) - 1) : r[i].timestamp <= r[i + 1].timestamp

\* v's records arrived in order with every consecutive gap within the timeout.
Continuous(v) ==
    LET r == RecordsOf(v)
    IN  \A i \in 1..(Len(r) - 1) :
            /\ r[i].timestamp <= r[i + 1].timestamp
            /\ r[i + 1].timestamp - r[i].timestamp <= session_timeout

\* C1: session continuity. A visitor whose n >= 1 records arrived in
\* non-decreasing order with every gap <= session_timeout has exactly one
\* session, with page_views_count = n, and all n records carry its id.
C1_SessionContinuity ==
    \A v \in Visitors :
        LET r == RecordsOf(v)
            s == Tracked(v)
        IN  (Len(r) >= 1 /\ Continuous(v)) =>
                /\ Len(s) = 1
                /\ s[1].page_views_count = Len(r)
                /\ \A i \in 1..Len(r) : r[i].session_id = s[1].session_id

C1_Witness ==
    \E v \in Visitors :
        LET r == RecordsOf(v)
        IN  /\ Len(r) = 3
            /\ Continuous(v)
            /\ r[1].timestamp < r[2].timestamp
            /\ r[3].timestamp - r[2].timestamp = session_timeout

\* C2: session split. A record whose gap to the last_activity of the visitor's
\* latest session is strictly greater than session_timeout appends a second
\* session (starting at the record's timestamp) and leaves the earlier session's
\* landing_page, exit_page, last_activity and page_views_count as they were;
\* no later record changes them either (a session that is not the visitor's
\* latest keeps these four fields in every step).
SplitFields(s) == <<s.landing_page, s.exit_page, s.last_activity, s.page_views_count>>

C2_SessionSplit ==
    [][\A v \in Visitors :
          LET old == Tracked(v)
              new == Tracked(v)'
              e == LastEntry'
          IN  /\ (/\ Called
                  /\ IsRecordOf(e, v)
                  /\ old # <<>>
                  /\ e.timestamp - old[Len(old)].last_activity > session_timeout)
                 => /\ Len(new) = Len(old) + 1
                    /\ new[Len(new)].start_time = e.timestamp
                    /\ new[Len(new)].page_views_count = 1
                    /\ SplitFields(new[Len(old)]) = SplitFields(old[Len(old)])
              /\ \A i \in 1..(Len(old) - 1) :
                    /\ i <= Len(new)
                    /\ SplitFields(new[i]) = SplitFields(old[i])
      ]_vars

\* A visitor was split into two sessions and a later record extended the second.
C2_Witness ==
    \E v \in Visitors :
        LET s == Tracked(v)
        IN  /\ Len(s) = 2
            /\ s[1].page_views_count = 1
            /\ s[2].page_views_count = 2
            /\ s[2].start_time - s[1].last_activity = session_timeout + 1
            /\ s[2].exit_page # s[1].exit_page

\* C3: landing_page, device_type, country_code, start_time and session_id of a
\* session are those of the record that created it: in every step a session
\* that existed keeps them, and a session that is new has the values of the
\* record just added.
CreationFields(s) ==
    <<s.landing_page, s.device_type, s.country_code, s.start_time, s.session_id>>

C3_CreationFieldsFixed ==
    [][\A v \in Visitors :
          LET old == Tracked(v)
              new == Tracked(v)'
              e == LastEntry'
          IN  /\ Len(new) >= Len(old)
              /\ \A i \in 1..Len(old) : CreationFields(new[i]) = CreationFields(old[i])
              /\ \A i \in (Len(old) + 1)..Len(new) :
                    /\ Called
                    /\ IsRecordOf(e, v)
                    /\ CreationFields(new[i]) =
                         <<e.url_path, e.device_type, e.country_code, e.timestamp, e.session_id>>
      ]_vars

\* A session was extended by a record of another page, device and country.
C3_Witness ==
    /\ all_page_views # <<>>
    /\ \E v \in Visitors :
          LET s == Tracked(v)
          IN  /\ IsRecordOf(LastEntry, v)
              /\ s # <<>>
              /\ s[Len(s)].page_views_count >= 2
              /\ s[Len(s)].session_id = LastEntry.session_id
              /\ s[Len(s)].landing_page # LastEntry.url_path
              /\ s[Len(s)].device_type # LastEntry.device_type
              /\ s[Len(s)].country_code # LastEntry.country_code

\* C4: exit_page and last_activity of a session are the url_path and the
\* timestamp of the record most recently added to it: a call with a record of
\* visitor v adds it to v's latest session and sets both from it, and exit_page
\* and last_activity of every other session stay as they were.
C4_ExitPageTracksLastRecord ==
    [][\A v \in Visitors :
          LET old == Tracked(v)
              new == Tracked(v)'
              e == LastEntry'
          IN  IF Called /\ IsRecordOf(e, v)
              THEN /\ new # <<>>
                   /\ Len(new) \in {Len(old), Len(old) + 1}
                   /\ new[Len(new)].session_id = e.session_id
                   /\ new[Len(new)].exit_page = e.url_path
                   /\ new[Len(new)].last_activity = e.timestamp
                   /\ \A i \in 1..(Len(new) - 1) :
                         /\ new[i].exit_page = old[i].exit_page
                         /\ new[i].last_activity = old[i].last_activity
              ELSE /\ Len(new) = Len(old)
                   /\ \A i \in 1..Len(old) :
                         /\ new[i].exit_page = old[i].exit_page
                         /\ new[i].last_activity = old[i].last_activity
      ]_vars

\* A session was extended and left through another page than it was entered.
C4_Witness ==
    \E v \in Visitors :
        LET s == Tracked(v)
        IN  /\ s # <<>>
            /\ s[Len(s)].page_views_count = 3
            /\ s[Len(s)].exit_page # s[Len(s)].landing_page
            /\ s[Len(s)].last_activity > s[Len(s)].start_time

\* The session records get_sessions emits now.
EmittedSessions == get_sessions(sessions_by_visitor)

\* The visitor records get_visitors emits now.
EmittedVisitors == get_visitors(sessions_by_visitor)

\* The session records emitted for visitor v.
EmittedSessionsOf(v) == SelectSeq(EmittedSessions, LAMBDA r : r.visitor_id = v)

\* C5 as stated: after any sequence of calls every session has
\* last_activity >= start_time and every emitted session record has
\* end_time >= start_time and duration_seconds >= 0.
C5_EndNotBeforeStart ==
    /\ \A v \in Visitors : \A i \in DOMAIN Tracked(v) :
          Tracked(v)[i].last_activity >= Tracked(v)[i].start_time
    /\ \A k \in DOMAIN EmittedSessions :
          /\ EmittedSessions[k].end_time >= EmittedSessions[k].start_time
          /\ EmittedSessions[k].duration_seconds >= 0

\* C5 amended: for a visitor whose records arrived in non-decreasing timestamp
\* order, every session has last_activity >= start_time and every emitted
\* session record has end_time >= start_time and duration_seconds >= 0.
C5_EndNotBeforeStartInOrder ==
    \A v \in Visitors :
        InOrder(v) =>
            /\ \A i \in DOMAIN Tracked(v) :
                  Tracked(v)[i].last_activity >= Tracked(v)[i].start_time
            /\ \A k \in DOMAIN EmittedSessionsOf(v) :
                  /\ EmittedSessionsOf(v)[k].end_time >= EmittedSessionsOf(v)[k].start_time
                  /\ EmittedSessionsOf(v)[k].duration_seconds >= 0

\* An in-order visitor has a session that lasted a full second or more.
C5_Witness ==
    \E v \in Visitors :
        /\ InOrder(v)
        /\ Len(RecordsOf(v)) >= 2
        /\ \E k \in DOMAIN EmittedSessionsOf(v) :
              /\ EmittedSessionsOf(v)[k].duration_seconds >= 1
              /\ EmittedSessionsOf(v)[k].page_views_count >= 2

\* C6: every session the tracker holds has page_views_count >= 1.
C6_PageViewsCountPositive ==
    \A v \in Keys(sessions_by_visitor) : \A i \in DOMAIN Tracked(v) :
        Tracked(v)[i].page_views_count >= 1

\* The tracker holds a session of one page view and one of several.
C6_Witness ==
    \E v \in Visitors, w \in Visitors :
        /\ \E i \in DOMAIN Tracked(v) : Tracked(v)[i].page_views_count = 1
        /\ \E j \in DOMAIN Tracked(w) : Tracked(w)[j].page_views_count = 2

\* The (visitor, index) pairs of the sessions the tracker holds.
Slots ==
    UNION {{<<v, i>> : i \in DOMAIN Tracked(v)} : v \in Keys(sessions_by_visitor)}

SessionAt(slot) == Tracked(slot[1])[slot[2]]

Absent(e) == e.visitor_id = None \/ "timestamp" \notin DOMAIN e

\* C8: a call with a record whose visitor_id or timestamp is absent returns
\* the record with session_id None and leaves the tracker (keys and session
\* lists) unchanged.
C8_SessionlessLeavesTracker ==
    [][(Called /\ Absent(LastEntry')) =>
          /\ LastEntry'.session_id = None
          /\ sessions_by_visitor' = sessions_by_visitor
      ]_vars

\* After a record with a session, one without visitor_id and one without
\* timestamp were added and the tracker still holds the one session.
C8_Witness ==
    /\ Len(all_page_views) = 3
    /\ ~Absent(all_page_views[1])
    /\ all_page_views[2].visitor_id = None
    /\ "timestamp" \in DOMAIN all_page_views[2]
    /\ all_page_views[3].visitor_id \in Visitors
    /\ "timestamp" \notin DOMAIN all_page_views[3]
    /\ all_page_views[2].session_id = None
    /\ all_page_views[3].session_id = None
    /\ Keys(sessions_by_visitor) = {all_page_views[1].visitor_id}
    /\ Len(EmittedSessions) = 1

\* The sum of page_views_count over a sequence of emitted session records.
RECURSIVE TotalCount(_)
TotalCount(records) ==
    IF records = <<>> THEN 0
    ELSE records[1].page_views_count + TotalCount(Tail(records))

\* C9: visitor rollup. For every visitor record get_visitors emits,
\* total_page_views is the sum of page_views_count over exactly that visitor's
\* emitted session records and total_visits is the number of those records.
C9_VisitorRollup ==
    \A k \in DOMAIN EmittedVisitors :
        LET vr == EmittedVisitors[k]
            mine == EmittedSessionsOf(vr.visitor_id)
        IN  /\ vr.total_page_views = TotalCount(mine)
            /\ vr.total_visits = Len(mine)

\* Two visitors were emitted, one with two sessions and one with a single one.
C9_Witness ==
    /\ Len(EmittedVisitors) = 2
    /\ Len(EmittedSessions) = 3
    /\ \E k \in DOMAIN EmittedVisitors :
          /\ EmittedVisitors[k].total_visits = 2
          /\ EmittedVisitors[k].total_page_views = 2

\* The least and the greatest element of a non-empty set of integers.
Min(S) == CHOOSE x \in S : \A y \in S : x <= y
Max(S) == CHOOSE x \in S : \A y \in S : x >= y

\* C10: for a visitor whose records arrived in non-decreasing timestamp order,
\* the emitted first_seen is the minimum start_time and last_seen the maximum
\* last_activity over the visitor's sessions, hence first_seen <= last_seen.
C10_FirstLastSeen ==
    \A k \in DOMAIN EmittedVisitors :
        LET vr == EmittedVisitors[k]
            s == Tracked(vr.visitor_id)
        IN  InOrder(vr.visitor_id) =>
                /\ vr.first_seen = Min({s[i].start_time : i \in DOMAIN s})
                /\ vr.last_seen = Max({s[i].last_activity : i \in DOMAIN s})
                /\ vr.first_seen <= vr.last_seen

\* An in-order visitor with two sessions, one of them extended.
C10_Witness ==
    \E k \in DOMAIN EmittedVisitors :
        LET vr == EmittedVisitors[k]
        IN  /\ vr.visitor_id \in Visitors
            /\ InOrder(vr.visitor_id)
            /\ vr.total_visits = 2
            /\ vr.total_page_views = 3
            /\ vr.first_seen < vr.last_seen

\* C11: every emitted session record has end_time equal to the tracked
\* session's last_activity and duration_seconds equal to last_activity -
\* start_time in whole seconds, truncated toward zero (never rounded); a
\* session of a single page view has duration_seconds 0.
C11_DurationTruncated ==
    \A v \in Keys(sessions_by_visitor) :
        /\ Len(EmittedSessionsOf(v)) = Len(Tracked(v))
        /\ \A i \in DOMAIN Tracked(v) :
              LET s == Tracked(v)[i]
                  r == EmittedSessionsOf(v)[i]
                  d == s.last_activity - s.start_time
                  q == r.duration_seconds
              IN  /\ r.end_time = s.last_activity
                  /\ d >= 0 => /\ q >= 0
                               /\ q * TicksPerSecond <= d
                               /\ d < (q + 1) * TicksPerSecond
                  /\ d < 0 => /\ q <= 0
                              /\ (-q) * TicksPerSecond <= -d
                              /\ -d < (1 - q) * TicksPerSecond
                  /\ s.page_views_count = 1 => q = 0

\* A session of two page views that lasted a fraction of a second is emitted
\* with duration 0.
C11_Witness ==
    \E k \in DOMAIN EmittedSessions :
        /\ EmittedSessions[k].end_time - EmittedSessions[k].start_time = 1
        /\ EmittedSessions[k].page_views_count = 2
        /\ EmittedSessions[k].duration_seconds = 0

\* C13: get_visitors emits exactly one record for every visitor identifier
\* that has at least one session and none for any other identifier, and every
\* key of the mapping maps to a non-empty list.
C13_OneRecordPerVisitor ==
    /\ \A v \in Keys(sessions_by_visitor) : Tracked(v) # <<>>
    /\ Len(sessions_by_visitor) = Cardinality(Keys(sessions_by_visitor))
    /\ \A v \in VisitorIds :
          Cardinality({k \in DOMAIN EmittedVisitors : EmittedVisitors[k].visitor_id = v})
            = IF Tracked(v) # <<>> THEN 1 ELSE 0
    /\ \A k \in DOMAIN EmittedVisitors : EmittedVisitors[k].visitor_id \in Visitors

\* Records without visitor_id were added, one visitor has a session and the
\* other has none.
C13_Witness ==
    /\ Len(EmittedVisitors) = 1
    /\ Len(all_page_views) = 3
    /\ \E i \in DOMAIN all_page_views : all_page_views[i].visitor_id = None
    /\ \E v \in Visitors : Tracked(v) = <<>> /\ RecordsOf(v) = <<>>

\* The tracker after the records of one visitor alone were fed, in their
\* order, to a fresh tracker with the same timeout.
RECURSIVE FedAlone(_, _)
FedAlone(sbv, records) ==
    IF records = <<>> THEN sbv
    ELSE FedAlone(_get_or_create_session(sbv, session_timeout, records[1].visitor_id,
                                         records[1].timestamp, records[1]).sbv,
                  Tail(records))

\* C15: per-visitor independence. A call for one visitor leaves every other
\* visitor's session list unchanged, and after every call the sessions of each
\* visitor are those a fresh tracker builds from that visitor's records alone
\* (so any interleaving with other visitors' records, and any sharding by
\* visitor that keeps each visitor's order, yields the same sessions and rollups).
C15_PerVisitorIndependence ==
    /\ [][\A v \in Visitors :
             (Called /\ LastEntry'.visitor_id # v) => Tracked(v)' = Tracked(v)
         ]_vars
    /\ [](\A v \in Visitors :
             LET alone == FedAlone(<<>>, RecordsOf(v))
             IN  /\ Tracked(v) = SessionsOf(alone, v)
                 /\ EmittedSessionsOf(v) = get_sessions(alone)
                 /\ SelectSeq(EmittedVisitors, LAMBDA r : r.visitor_id = v) = get_visitors(alone))

\* The records of two visitors were interleaved: one visitor's two records
\* surround the other's and share a session.
C15_Witness ==
    /\ Len(all_page_views) = 3
    /\ \E v \in Visitors, w \in Visitors :
          /\ v # w
          /\ IsRecordOf(all_page_views[1], v)
          /\ IsRecordOf(all_page_views[2], w)
          /\ IsRecordOf(all_page_views[3], v)
          /\ Len(Tracked(v)) = 1
          /\ Tracked(v)[1].page_views_count = 2
          /\ Tracked(v)[1].last_activity > Tracked(w)[1].last_activity

\* C12: reset isolation. Right after reset() the mapping is empty and the
\* timeout is the constructed one, as in a fresh SessionBuilder; once the
\* records of the first run were all added again, the returned entries and the
\* outputs of get_sessions and get_visitors are identical to the first run's.
C12_ResetIsolation ==
    prior # <<>> =>
        /\ session_timeout = SessionTimeout
        /\ all_page_views = <<>> => sessions_by_visitor = <<>>
        /\ Len(all_page_views) = Len(prior[1].entries) =>
              /\ all_page_views = prior[1].entries
              /\ get_sessions(sessions_by_visitor) = prior[1].sessions
              /\ get_visitors(sessions_by_visitor) = prior[1].visitors

\* A first run that built two sessions for one visitor and a third record was
\* replayed in full after reset().
C12_Witness ==
    /\ prior # <<>>
    /\ Len(prior[1].entries) = 3
    /\ Len(all_page_views) = 3
    /\ Len(prior[1].sessions) = 2
    /\ \E k \in DOMAIN prior[1].sessions : prior[1].sessions[k].page_views_count = 2

\* The number of sessions the tracker holds, over all visitors.
RECURSIVE TrackedCount(_)
TrackedCount(sbv) ==
    IF sbv = <<>> THEN 0 ELSE Len(sbv[1].sessions) + TrackedCount(Tail(sbv))

\* C14: get_sessions and get_visitors are read-only. The extraction leaves
\* the mapping unchanged, get_sessions emits exactly one record per tracked
\* session, and extracting again with no call in between returns the same records.
C14_ExtractorsReadOnly ==
    [][pc' = "extracted" =>
          /\ sessions_by_visitor' = sessions_by_visitor
          /\ Len(out_sessions') = TrackedCount(sessions_by_visitor)
          /\ Len(out_visitors') = Len(sessions_by_visitor)
          /\ pc = "extracted" => (out_sessions' = out_sessions /\ out_visitors' = out_visitors)
      ]_vars

\* Three session records of two visitors were extracted.
C14_Witness ==
    /\ pc = "extracted"
    /\ Len(out_sessions) = 3
    /\ Len(out_visitors) = 2
    /\ Len(sessions_by_visitor) = 2

\* The load_page_views calls that have returned.
PageViewLoads == {n \in DOMAIN history : history[n].op = "load_page_views"}

\* The rows of a whole input list.
InputRows(input) == Records(input, 0, Len(input))

\* The rows of an input list that violate no constraint, in input order.
ValidRows(input) == SelectSeq(InputRows(input), LAMBDA r : ~PageViewViolates(r))

\* C16: page-view partial-failure isolation. When every failed insert of a
\* load_page_views call is explained by a constraint violation, the call
\* has added exactly the valid records of its input to the table, in input
\* order, and has returned their number, whatever the batch size and
\* whichever invalid records share a chunk with them.
C16_PartialFailureIsolation ==
    \A n \in PageViewLoads :
        LET h == history[n]
        IN  h.faults = 0 =>
               /\ h.db_at_return.page_views =
                     h.db_at_call.page_views \o ValidRows(h.input)
               /\ h.returned = Len(ValidRows(h.input))

\* A call with batch size 2 has returned 2 for two valid records that
\* follow one invalid record, which shared its chunk with the first of them.
C16_Witness ==
    \E n \in PageViewLoads :
        LET h == history[n]
        IN  /\ h.faults = 0
            /\ batch_size = 2
            /\ Len(h.input) = 3
            /\ PageViewViolates(InputRows(h.input)[1])
            /\ Len(ValidRows(h.input)) = 2
            /\ h.returned = 2
            /\ h.failed_chunks = 1
            /\ Len(db_page_views) = 2

\* C17: the value load_page_views returns is the number of rows the call
\* committed to page_views, under every pattern of chunk and record
\* failures; it is at most the input length, and the input length minus
\* the value is the number of records dropped by the fallback. While the
\* call runs, inserted_count is the number of rows committed so far.
C17_ReturnCountsCommitted ==
    /\ \A n \in PageViewLoads :
          LET h == history[n]
          IN  /\ h.returned =
                    Len(h.db_at_return.page_views) - Len(h.db_at_call.page_views)
              /\ h.returned <= Len(h.input)
              /\ Len(h.input) - h.returned = h.failed_records
    /\ load.op = "load_page_views" =>
          load.inserted_count = Len(db_page_views) - Len(load.db_at_call.page_views)

\* A call has returned fewer than its three records and more than none,
\* after a chunk failed that violated no constraint and a record was
\* dropped in the fallback.
C17_Witness ==
    \E n \in PageViewLoads :
        LET h == history[n]
        IN  /\ Len(h.input) = 3
            /\ h.faults >= 1
            /\ h.failed_chunks >= 1
            /\ h.failed_records = 1
            /\ h.returned = 2
            /\ Len(h.db_at_return.page_views) = 2

\* The load_sessions calls that have returned.
SessionLoads == {n \in DOMAIN history : history[n].op = "load_sessions"}

\* No two rows of the table hold the same key.
UniqueKey(table, key) ==
    \A a, b \in DOMAIN table : a # b => table[a][key] # table[b][key]

\* The last record of the input that carries the key.
LastWithKey(input, key, id) ==
    input[Max({m \in DOMAIN input : input[m][key] = id})]

\* The call returned without a failed chunk.
Successful(h) == h.failed_chunks = 0

\* C18: upsert idempotence for sessions. The table never holds two rows
\* with one session_id. After a successful load_sessions call every
\* session_id of the input has a row whose end_time is that of the last
\* submitted record with the id, and a successful call that repeats the
\* input of the successful call before it leaves the table as that call
\* left it.
C18_UpsertIdempotence ==
    /\ UniqueKey(db_sessions, "session_id")
    /\ \A n \in SessionLoads :
          LET h == history[n]
              rows == h.db_at_return.sessions
          IN  Successful(h) =>
                 /\ \A m \in DOMAIN h.input :
                       \E r \in DOMAIN rows :
                          /\ rows[r].session_id = h.input[m].session_id
                          /\ rows[r].end_time =
                                LastWithKey(h.input, "session_id",
                                            h.input[m].session_id).end_time
                 /\ (/\ n > 1
                     /\ history[n - 1].op = "load_sessions"
                     /\ Successful(history[n - 1])
                     /\ history[n - 1].input = h.input)
                       => rows = history[n - 1].db_at_return.sessions

\* Two successful calls have returned: the first loaded a session record,
\* the second a record with the same session_id and a later end_time, and
\* the table holds one row, with the later end_time.
C18_Witness ==
    /\ Len(history) = 2
    /\ \A n \in DOMAIN history :
          /\ history[n].op = "load_sessions"
          /\ Successful(history[n])
          /\ Len(history[n].input) = 1
    /\ history[1].input[1].session_id = history[2].input[1].session_id
    /\ history[2].input[1].end_time > history[1].input[1].end_time
    /\ Len(db_sessions) = 1
    /\ db_sessions[1].end_time = history[2].input[1].end_time

\* A pass of the chunk loop of the call op has committed its batch.
Upserted(op) ==
    /\ load.op = op
    /\ load'.op = op
    /\ load'.inserted_count > load.inserted_count

\* The batch of the pass that is about to run.
CurrentBatch == Chunk(load.input, load.i, batch_size)

\* C19: the frame of a session upsert. When a chunk of load_sessions is
\* committed, every row that was stored before keeps its place and its
\* session_id, visitor_id, start_time, landing_page, device_type and
\* country_code; if the chunk holds a record with its session_id, its
\* end_time, duration_seconds, page_views_count and exit_page are those of
\* the record, and otherwise they are unchanged too.
C19_SessionUpsertFrame ==
    [][Upserted("load_sessions") =>
          \A n \in DOMAIN db_sessions :
             LET old == db_sessions[n]
                 new == db_sessions'[n]
                 hits == {m \in DOMAIN CurrentBatch :
                             CurrentBatch[m].session_id = old.session_id}
             IN  /\ n \in DOMAIN db_sessions'
                 /\ \A k \in {"session_id", "visitor_id", "start_time", "landing_page",
                              "device_type", "country_code"} : new[k] = old[k]
                 /\ \A k \in {"end_time", "duration_seconds", "page_views_count",
                              "exit_page"} :
                       /\ \A m \in hits : new[k] = CurrentBatch[m][k]
                       /\ hits = {} => new[k] = old[k]
      ]_vars

\* A call has loaded a session record and then, in a later chunk, a record
\* with the same session_id that differs in visitor_id, start_time,
\* landing_page, device_type and country_code; the one stored row has the
\* creation fields of the first and the end_time and exit_page of the second.
C19_Witness ==
    \E n \in SessionLoads :
        LET h == history[n]
        IN  /\ Successful(h)
            /\ Len(h.input) = 2
            /\ h.input[1].session_id = h.input[2].session_id
            /\ h.input[1].visitor_id # h.input[2].visitor_id
            /\ h.input[1].start_time # h.input[2].start_time
            /\ h.input[1].landing_page # h.input[2].landing_page
            /\ h.input[1].device_type # h.input[2].device_type
            /\ h.input[1].country_code # h.input[2].country_code
            /\ h.input[1].end_time # h.input[2].end_time
            /\ h.input[1].exit_page # h.input[2].exit_page
            /\ Len(db_sessions) = 1
            /\ db_sessions[1].start_time = h.input[1].start_time
            /\ db_sessions[1].landing_page = h.input[1].landing_page
            /\ db_sessions[1].end_time = h.input[2].end_time
            /\ db_sessions[1].exit_page = h.input[2].exit_page

\* The load_visitors calls that have returned.
VisitorLoads == {n \in DOMAIN history : history[n].op = "load_visitors"}

\* C20: the frame of a visitor upsert. When a chunk of load_visitors is
\* committed, every row that was stored before keeps its place, its
\* visitor_id and its first_seen; if the chunk holds a record with its
\* visitor_id, its last_seen, total_visits and total_page_views are the
\* submitted values (not sums with the stored ones), and otherwise they
\* are unchanged. The table never holds two rows with one visitor_id.
C20_VisitorUpsertFrame ==
    [][/\ UniqueKey(db_visitors', "visitor_id")
       /\ Upserted("load_visitors") =>
             \A n \in DOMAIN db_visitors :
                LET old == db_visitors[n]
                    new == db_visitors'[n]
                    hits == {m \in DOMAIN CurrentBatch :
                                CurrentBatch[m].visitor_id = old.visitor_id}
                IN  /\ n \in DOMAIN db_visitors'
                    /\ new.visitor_id = old.visitor_id
                    /\ new.first_seen = old.first_seen
                    /\ \A k \in {"last_seen", "total_visits", "total_page_views"} :
                          /\ \A m \in hits : new[k] = CurrentBatch[m][k]
                          /\ hits = {} => new[k] = old[k]
      ]_vars

\* Two successful calls have returned: the first loaded a visitor with one
\* visit, the second the same visitor_id with a later first_seen, a later
\* last_seen and two visits; the one stored row has two visits, the
\* first_seen of the first record and the last_seen of the second.
C20_Witness ==
    /\ Len(history) = 2
    /\ \A n \in DOMAIN history :
          /\ history[n].op = "load_visitors"
          /\ Successful(history[n])
          /\ Len(history[n].input) = 1
    /\ history[1].input[1].visitor_id = history[2].input[1].visitor_id
    /\ history[1].input[1].total_visits = 1
    /\ history[2].input[1].total_visits = 2
    /\ history[2].input[1].first_seen > history[1].input[1].first_seen
    /\ history[2].input[1].last_seen > history[1].input[1].last_seen
    /\ Len(db_visitors) = 1
    /\ db_visitors[1].total_visits = 2
    /\ db_visitors[1].total_page_views = history[2].input[1].total_page_views
    /\ db_visitors[1].first_seen = history[1].input[1].first_seen
    /\ db_visitors[1].last_seen = history[2].input[1].last_seen

\* The two loaders that upsert.
UpsertOps == {"load_sessions", "load_visitors"}

\* The upsert calls that have returned.
UpsertLoads == {n \in DOMAIN history : history[n].op \in UpsertOps}

\* A pass of the chunk loop of an upsert call has ended in the except branch.
UpsertFailed ==
    /\ load.op \in UpsertOps
    /\ load'.op = load.op
    /\ load'.failed_chunks = load.failed_chunks + 1

\* ceil(n / size)
NumChunks(n, size) == (n + size - 1) \div size

\* C21: a failed chunk of load_sessions or load_visitors. The step in which
\* the upsert of a chunk fails leaves the three tables as they were, is one
\* attempt ended by a rollback, and moves on to the next chunk without a
\* fallback; every upsert call that has returned has attempted each of its
\* chunks exactly once, whatever failed before, and tried no record alone.
C21_FailedUpsertChunk ==
    /\ [][UpsertFailed =>
             /\ Storage' = Storage
             /\ load'.i = load.i + batch_size
             /\ load'.j = 0
             /\ load'.attempts = load.attempts + 1
             /\ load'.rollbacks = load.rollbacks + 1
             /\ load'.inserted_count = load.inserted_count
         ]_vars
    /\ [](\A n \in UpsertLoads :
             /\ history[n].attempts = NumChunks(Len(history[n].input), batch_size)
             /\ history[n].chunks = history[n].attempts
             /\ history[n].failed_records = 0)

\* A load_sessions call over two chunks of one record has returned: the
\* first chunk failed, the second was committed and is the only row.
C21_Witness ==
    \E n \in UpsertLoads :
        LET h == history[n]
        IN  /\ h.op = "load_sessions"
            /\ batch_size = 1
            /\ Len(h.input) = 2
            /\ h.failed_chunks = 1
            /\ h.attempts = 2
            /\ h.db_at_call.sessions = <<>>
            /\ h.db_at_return.sessions = <<h.input[2]>>
            /\ h.input[1].session_id # h.input[2].session_id

\* An upsert call returns.
UpsertReturns ==
    /\ load.op \in UpsertOps
    /\ load' = NoCall
    /\ Len(history') = Len(history) + 1

\* C22: the value load_sessions and load_visitors return. A committed chunk
\* adds its own size to the count and a failed chunk adds nothing; the call
\* returns the count it has reached, which is at most the input length and
\* equals it exactly when no chunk of the call failed.
C22_UpsertReturnValue ==
    /\ [][/\ \A op \in UpsertOps :
                Upserted(op) =>
                   load'.inserted_count = load.inserted_count + Len(CurrentBatch)
          /\ UpsertFailed => load'.inserted_count = load.inserted_count
          /\ UpsertReturns => history'[Len(history')].returned = load.inserted_count
         ]_vars
    /\ [](\A n \in UpsertLoads :
             /\ history[n].returned <= Len(history[n].input)
             /\ history[n].returned = Len(history[n].input)
                   <=> history[n].failed_chunks = 0)

\* A load_visitors call over three records in chunks of two has returned 1:
\* the chunk of two failed and the last chunk, of one record, was committed.
C22_Witness ==
    \E n \in UpsertLoads :
        LET h == history[n]
        IN  /\ h.op = "load_visitors"
            /\ batch_size = 2
            /\ Len(h.input) = 3
            /\ h.failed_chunks = 1
            /\ h.commits = 1
            /\ h.returned = 1
            /\ Len(h.db_at_return.visitors) = 1

\* The chunks the loop "for i in range(0, len(input), size)" meets from
\* offset i on.
RECURSIVE ChunksFrom(_, _, _)
ChunksFrom(input, i, size) ==
    IF i >= Len(input) THEN <<>>
    ELSE <<Chunk(input, i, size)>> \o ChunksFrom(input, i + size, size)

\* The concatenation of a sequence of sequences.
RECURSIVE Concat(_)
Concat(seqs) == IF seqs = <<>> THEN <<>> ELSE Head(seqs) \o Concat(Tail(seqs))

\* C23: chunking. Every load_* call splits its N records into
\* ceil(N / batch_size) chunks and makes one pass of the chunk loop for
\* each; the chunks are consecutive slices in input order whose
\* concatenation is the input, each holds at least one and at most
\* batch_size records, and all but the last hold exactly batch_size. While a
\* call runs, the offset of the loop is the number of passes made times
\* batch_size.
C23_Chunking ==
    /\ \A n \in DOMAIN history :
          LET h == history[n]
              chunks == ChunksFrom(h.input, 0, batch_size)
          IN  /\ Len(chunks) = NumChunks(Len(h.input), batch_size)
              /\ h.chunks = Len(chunks)
              /\ Concat(chunks) = h.input
              /\ \A k \in DOMAIN chunks :
                    /\ Len(chunks[k]) >= 1
                    /\ Len(chunks[k]) <= batch_size
                    /\ k < Len(chunks) => Len(chunks[k]) = batch_size
    /\ (load # NoCall /\ load.j = 0) =>
          /\ load.i = load.chunks * batch_size
          /\ load.i < Len(load.input) =>
                CurrentBatch = ChunksFrom(load.input, 0, batch_size)[load.chunks + 1]

\* A call over three records in chunks of two has returned after two passes
\* of the chunk loop, the second over a chunk of one record.
C23_Witness ==
    \E n \in DOMAIN history :
        LET h == history[n]
        IN  /\ batch_size = 2
            /\ Len(h.input) = 3
            /\ h.chunks = 2
            /\ Len(Chunk(h.input, 2, batch_size)) = 1
            /\ h.returned = 3

\* A persistence operation of loader op is executed in this step.
Operates(op) ==
    /\ load.op = op
    /\ load'.op = op
    /\ load'.attempts = load.attempts + 1

\* The calls of the load_all run that have returned.
RunCalls == (run.base + 1)..Len(history)

\* Loader op has returned within the load_all run.
ReturnedInRun(op) == \E n \in RunCalls : history[n].op = op

\* C24: the phases of load_all. Page views are only written before any
\* other loader has returned, sessions only after load_page_views has
\* returned and visitors only after load_sessions has returned too. When
\* load_all returns, exactly three loader calls have been made, in the order
\* page views, sessions, visitors and each with its own argument, whatever
\* failed in them, and the result holds each loader's return value under
\* its key.
C24_LoadAllOrder ==
    /\ [][/\ Operates("load_page_views") => Phase = 0
          /\ Operates("load_sessions") =>
                ReturnedInRun("load_page_views") /\ ~ReturnedInRun("load_sessions")
          /\ Operates("load_visitors") =>
                ReturnedInRun("load_page_views") /\ ReturnedInRun("load_sessions")
         ]_vars
    /\ [](run.state = "returned" =>
             /\ Len(history) = run.base + 3
             /\ history[run.base + 1].op = "load_page_views"
             /\ history[run.base + 1].input = run.page_views
             /\ history[run.base + 2].op = "load_sessions"
             /\ history[run.base + 2].input = run.sessions
             /\ history[run.base + 3].op = "load_visitors"
             /\ history[run.base + 3].input = run.visitors
             /\ \A n \in RunCalls :
                   /\ history[n].op = "load_page_views" =>
                         run.results.page_views = history[n].returned
                   /\ history[n].op = "load_sessions" =>
                         run.results.sessions = history[n].returned
                   /\ history[n].op = "load_visitors" =>
                         run.results.visitors = history[n].returned)

\* load_all has returned: load_page_views dropped its record, the chunk of
\* load_sessions failed, and load_visitors still stored its record and
\* reported it.
C24_Witness ==
    /\ run.state = "returned"
    /\ history[run.base + 1].failed_records = 1
    /\ history[run.base + 2].failed_chunks = 1
    /\ history[run.base + 3].commits = 1
    /\ run.results = [page_views |-> 0, sessions |-> 0, visitors |-> 1]
    /\ db_page_views = <<>>
    /\ db_sessions = <<>>
    /\ Len(db_visitors) = 1

\* The insert attempts of load_page_views stay within one per chunk plus
\* one per record.
AttemptsBounded(call) ==
    call.op = "load_page_views" =>
       call.attempts <= NumChunks(Len(call.input), batch_size) + Len(call.input)

\* C25: best effort, never fatal. Whatever inserts, upserts and commits
\* fail, a load_all call that has started goes on to return its summary,
\* and load_page_views makes at most (number of chunks + N) insert attempts
\* for its N records.
C25_LoadAllTerminates ==
    /\ [](/\ load # NoCall => AttemptsBounded(load)
          /\ \A n \in DOMAIN history : AttemptsBounded(history[n]))
    /\ (run.state = "running") ~> (run.state = "returned" /\ load = NoCall)

\* load_all has returned although both chunks of load_page_views failed
\* and both records were then tried alone, four attempts in all, and the
\* upsert of the session failed as well.
C25_Witness ==
    /\ run.state = "returned"
    /\ batch_size = 1
    /\ Len(run.page_views) = 2
    /\ history[run.base + 1].failed_chunks = 2
    /\ history[run.base + 1].attempts = 4
    /\ Len(run.sessions) = 1
    /\ history[run.base + 2].rollbacks = 1
    /\ run.results.sessions = 0

\* A call that touched the database in no way: no insert or upsert
\* attempt, no commit, no rollback, and the tables as they were.
NoPersistence(call) ==
    /\ call.chunks = 0
    /\ call.attempts = 0
    /\ call.commits = 0
    /\ call.rollbacks = 0
    /\ call.db_at_return = call.db_at_call

\* C26: a loader called with an empty list returns 0 at once and performs
\* no persistence operation (the loop is never entered), and a load_all
\* in which one input is empty still makes its other calls.
C26_EmptyInput ==
    /\ load # NoCall => load.input # <<>>
    /\ \A n \in DOMAIN history :
          history[n].input = <<>> =>
             history[n].returned = 0 /\ NoPersistence(history[n])
    /\ (run.state = "returned" /\ <<>> \in {run.page_views, run.sessions, run.visitors}) =>
          /\ {history[n].op : n \in RunCalls} =
                {"load_page_views", "load_sessions", "load_visitors"}
          /\ \A n \in RunCalls :
                history[n].input # <<>> => history[n].attempts >= 1

\* load_all has returned from a run without sessions: load_sessions
\* returned 0 without touching the database, between a load_page_views
\* and a load_visitors that each committed a record.
C26_Witness ==
    /\ run.state = "returned"
    /\ run.sessions = <<>>
    /\ run.results = [page_views |-> 1, sessions |-> 0, visitors |-> 1]
    /\ NoPersistence(history[run.base + 2])
    /\ history[run.base + 1].commits = 1
    /\ history[run.base + 3].commits = 1
    /\ Len(db_page_views) = 1 /\ db_sessions = <<>> /\ Len(db_visitors) = 1

\* C27: the timeout boundary is inclusive. A record whose timestamp is
\* exactly last_activity + session_timeout of the visitor's latest session
\* extends that session (its count grows by one, no session is added, the
\* record carries its id); a record one second later than that starts a
\* new session. The threshold is the timeout the tracker was constructed
\* with, which defaults to 30 minutes, and it never changes.
C27_BoundaryInclusive ==
    [][/\ session_timeout' = session_timeout
       /\ \A v \in Visitors :
            LET old == Tracked(v)
                new == Tracked(v)'
                e == LastEntry'
                n == Len(old)
            IN  (Called /\ IsRecordOf(e, v) /\ old # <<>>) =>
                  /\ e.timestamp = old[n].last_activity + session_timeout =>
                        /\ Len(new) = n
                        /\ new[n].page_views_count = old[n].page_views_count + 1
                        /\ new[n].last_activity = e.timestamp
                        /\ e.session_id = old[n].session_id
                  /\ e.timestamp = old[n].last_activity + session_timeout + TicksPerSecond =>
                        /\ Len(new) = n + 1
                        /\ new[n] = old[n]
                        /\ new[n + 1].start_time = e.timestamp
                        /\ new[n + 1].page_views_count = 1
                        /\ e.session_id = new[n + 1].session_id
      ]_vars

\* Under the default timeout of 30 minutes a visitor's second record came
\* exactly 30 minutes after the first and extended the session, and the
\* third came 30 minutes and one second after the second and started a
\* new one.
C27_Witness ==
    /\ session_timeout = timedelta_minutes(DefaultSessionTimeoutMinutes)
    /\ \E v \in Visitors :
          LET s == Tracked(v)
          IN  /\ Len(s) = 2
              /\ s[1].start_time = 0
              /\ s[1].last_activity = session_timeout
              /\ s[1].page_views_count = 2
              /\ s[2].start_time = 2 * session_timeout + TicksPerSecond
              /\ s[2].page_views_count = 1

\* C28: only the latest session is open. A call of add_page_view changes
\* a visitor's list of sessions in at most one of two ways: it rewrites
\* the last session, or it appends one session and leaves the former last
\* as it was. Every session that is not the last stays exactly as it is,
\* in whatever order the timestamps arrive.
C28_OnlyLatestOpen ==
    [][\A v \in Visitors :
          LET old == Tracked(v)
              new == Tracked(v)'
          IN  /\ Len(new) \in {Len(old), Len(old) + 1}
              /\ \A i \in 1..(Len(old) - 1) : new[i] = old[i]
              /\ (Len(new) = Len(old) + 1 /\ old # <<>>) => new[Len(old)] = old[Len(old)]
      ]_vars

\* A visitor's records came at 0, at MaxTime and again at 0: the third,
\* although it is as old as the first session, went to the second session
\* and the first was left as it was.
C28_Witness ==
    \E v \in Visitors :
        LET s == Tracked(v)
            r == RecordsOf(v)
        IN  /\ Len(r) = 3
            /\ r[3].timestamp = 0
            /\ Len(s) = 2
            /\ s[1].start_time = 0
            /\ s[1].last_activity = 0
            /\ s[1].page_views_count = 1
            /\ s[2].start_time = MaxTime
            /\ s[2].last_activity = 0
            /\ s[2].page_views_count = 2
            /\ r[3].session_id = s[2].session_id

\* C29: under ordered input the sessions are the runs the glossary
\* describes. For a visitor whose records arrived in non-decreasing
\* timestamp order, two consecutive records that carry the same session
\* id are at most session_timeout apart, and of two consecutive sessions
\* the later starts more than session_timeout after the last_activity of
\* the earlier, so the sessions are disjoint in time and strictly ordered
\* by start_time.
C29_SessionsAreRuns ==
    \A v \in Visitors :
        LET r == RecordsOf(v)
            s == Tracked(v)
        IN  InOrder(v) =>
              /\ \A i \in 1..(Len(r) - 1) :
                    r[i].session_id = r[i + 1].session_id =>
                       r[i + 1].timestamp - r[i].timestamp <= session_timeout
              /\ \A k \in 1..(Len(s) - 1) :
                    /\ s[k + 1].start_time - s[k].last_activity > session_timeout
                    /\ s[k].start_time <= s[k].last_activity
                    /\ s[k].last_activity < s[k + 1].start_time
                    /\ s[k].start_time < s[k + 1].start_time

\* A visitor's three records arrived in order: two in one session, and
\* the third one tick beyond the timeout after them in a second session.
C29_Witness ==
    \E v \in Visitors :
        LET r == RecordsOf(v)
            s == Tracked(v)
        IN  /\ Len(r) = 3
            /\ InOrder(v)
            /\ Len(s) = 2
            /\ s[1].page_views_count = 2
            /\ r[1].session_id = r[2].session_id
            /\ r[3].session_id # r[2].session_id
            /\ s[2].start_time - s[1].last_activity = session_timeout + 1

\* C30: out-of-order input is neither detected nor rejected. A record
\* whose timestamp is earlier than the last_activity of the visitor's
\* latest session has a negative gap, which always passes the gap test:
\* the record extends that session (count + 1, exit_page replaced, the
\* session's id on the record), last_activity moves back to the record's
\* timestamp, and no session is created.
C30_OutOfOrderExtends ==
    [][\A v \in Visitors :
          LET old == Tracked(v)
              new == Tracked(v)'
              e == LastEntry'
              n == Len(old)
          IN  (/\ Called
               /\ IsRecordOf(e, v)
               /\ old # <<>>
               /\ e.timestamp < old[n].last_activity)
              => /\ Len(new) = n
                 /\ new[n].page_views_count = old[n].page_views_count + 1
                 /\ new[n].exit_page = e.url_path
                 /\ new[n].last_activity = e.timestamp
                 /\ new[n].last_activity < old[n].last_activity
                 /\ new[n].start_time = old[n].start_time
                 /\ new[n].session_id = old[n].session_id
                 /\ e.session_id = old[n].session_id
      ]_vars

\* A visitor's record of "/a" at MaxTime was followed by a record of "/b"
\* at 0, more than the timeout earlier: one session, started at MaxTime,
\* with two page views, exit page "/b" and last_activity 0.
C30_Witness ==
    \E v \in Visitors :
        LET r == RecordsOf(v)
            s == Tracked(v)
        IN  /\ Len(r) = 2
            /\ r[1].timestamp = MaxTime /\ r[1].url_path = "/a"
            /\ r[2].timestamp = 0 /\ r[2].url_path = "/b"
            /\ MaxTime > session_timeout
            /\ Len(s) = 1
            /\ s[1].start_time = MaxTime
            /\ s[1].last_activity = 0
            /\ s[1].page_views_count = 2
            /\ s[1].landing_page = "/a"
            /\ s[1].exit_page = "/b"
            /\ r[2].session_id = r[1].session_id

\* C31: for a record with visitor_id and timestamp, the session_id written
\* into the returned record is the session_id of the last session of that
\* visitor's list right after the call (the extended session or the new
\* one), and the record that is returned is the record that was given:
\* an entry of the logs with nothing but session_id set on it.
C31_ReturnedSessionId ==
    [][Called =>
          LET e == LastEntry'
          IN  /\ WithoutSessionId(e) \in LogEntries
              /\ DOMAIN e = DOMAIN WithoutSessionId(e) \cup {"session_id"}
              /\ ~Absent(e) =>
                    LET new == SessionsOf(sessions_by_visitor', e.visitor_id)
                    IN  /\ new # <<>>
                        /\ e.session_id = new[Len(new)].session_id
                        /\ e.session_id # None
      ]_vars

\* A visitor's first record carries the id of the first session, and the
\* second and third, one opening and one extending the second session,
\* carry the id of the second.
C31_Witness ==
    \E v \in Visitors :
        LET r == RecordsOf(v)
            s == Tracked(v)
        IN  /\ Len(r) = 3
            /\ Len(s) = 2
            /\ s[2].page_views_count = 2
            /\ s[1].session_id # s[2].session_id
            /\ r[1].session_id = s[1].session_id
            /\ r[2].session_id = s[2].session_id
            /\ r[3].session_id = s[2].session_id

\* The sum of page_views_count over all sessions of all visitors.
RECURSIVE TrackedPageViews(_)
TrackedPageViews(sbv) ==
    IF sbv = <<>> THEN 0
    ELSE SumPageViews(sbv[1].sessions) + TrackedPageViews(Tail(sbv))

\* The calls since construction or the last reset whose record had both
\* visitor_id and timestamp.
SessionCalls == Cardinality({i \in DOMAIN all_page_views : ~Absent(all_page_views[i])})

\* C32: page-view conservation. Since construction or the last reset the
\* sum of page_views_count over all sessions of all visitors equals the
\* number of add_page_view calls whose record had both visitor_id and
\* timestamp; each such call raises the sum by exactly 1 and the number
\* of sessions by 0 or 1, and a session-less call raises neither.
C32_PageViewConservation ==
    /\ [](TrackedPageViews(sessions_by_visitor) = SessionCalls)
    /\ [][Called =>
             LET sum == TrackedPageViews(sessions_by_visitor)
                 count == TrackedCount(sessions_by_visitor)
             IN  IF Absent(LastEntry')
                 THEN /\ TrackedPageViews(sessions_by_visitor') = sum
                      /\ TrackedCount(sessions_by_visitor') = count
                 ELSE /\ TrackedPageViews(sessions_by_visitor') = sum + 1
                      /\ TrackedCount(sessions_by_visitor') \in {count, count + 1}
         ]_vars

\* After reset() three records were added again, one of them without a
\* timestamp: the tracker holds one session of two page views.
C32_Witness ==
    /\ prior # <<>>
    /\ Len(all_page_views) = 3
    /\ \E i \in DOMAIN all_page_views : "timestamp" \notin DOMAIN all_page_views[i]
    /\ SessionCalls = 2
    /\ TrackedPageViews(sessions_by_visitor) = 2
    /\ TrackedCount(sessions_by_visitor) = 1

\* The page views of a list that carry a session id.
WithSession(page_views) == SelectSeq(page_views, LAMBDA e : e.session_id # None)

\* The calls of load_page_views, returned or running.
PageViewCalls ==
    {history[n] : n \in {m \in DOMAIN history : history[m].op = "load_page_views"}}
    \cup (IF load # NoCall /\ load.op = "load_page_views" THEN {load} ELSE {})

\* C33: in the pipeline every record passed to add_page_view, the
\* session-less ones (session_id None) included, is in the list handed to
\* load_page_views: the number of page views submitted equals the number
\* of records added, and the number of submitted page views with a session
\* id equals the sum of page_views_count over all sessions.
C33_AllRecordsSubmitted ==
    /\ run # NoRun =>
          /\ run.page_views = all_page_views
          /\ Len(WithSession(run.page_views)) = TrackedPageViews(sessions_by_visitor)
          /\ Len(WithSession(run.page_views)) = SumPageViews(run.sessions)
          /\ Len(run.page_views) - Len(WithSession(run.page_views)) =
                Cardinality({i \in DOMAIN all_page_views : Absent(all_page_views[i])})
    /\ \A call \in PageViewCalls :
          /\ call.input = all_page_views
          /\ Len(call.input) = Len(all_page_views)

\* The pipeline added a record with a session, one without a visitor and
\* one without a timestamp, handed all three to load_page_views, and the
\* one without a visitor was stored with a null session_id.
C33_Witness ==
    /\ run.state = "returned"
    /\ Len(all_page_views) = 3
    /\ Len(WithSession(all_page_views)) = 1
    /\ \E i \in DOMAIN all_page_views : all_page_views[i].visitor_id = None
    /\ \E i \in DOMAIN all_page_views : "timestamp" \notin DOMAIN all_page_views[i]
    /\ Len(history[run.base + 1].input) = 3
    /\ \E k \in DOMAIN db_page_views : db_page_views[k].session_id = None
    /\ run.results.page_views = 2

\* a is b with some elements left out: every element of a is an element
\* of b of its own, in the same order.
RECURSIVE IsSubSeq(_, _)
IsSubSeq(a, b) ==
    IF a = <<>> THEN TRUE
    ELSE IF b = <<>> THEN FALSE
    ELSE IF Head(a) = Head(b) THEN IsSubSeq(Tail(a), Tail(b))
    ELSE IsSubSeq(a, Tail(b))

\* The rows a call has added to page_views.
AddedSince(before, now) == SubSeq(now, Len(before) + 1, Len(now))

\* The records of the running call whose attempts are over: the chunks
\* before offset i and, in the fallback, the records before record j.
Settled(call) ==
    LET n == IF call.j = 0 THEN call.i ELSE call.i + call.j - 1
    IN  IF n <= Len(call.input) THEN n ELSE Len(call.input)

\* C34: in load_page_views a failed chunk insert is rolled back before
\* the per-record fallback starts: when the fallback begins none of the
\* chunk's rows is in the table, and every input record is persisted at
\* most once per call, never by the chunk insert and by the fallback both.
C34_RollbackBeforeFallback ==
    /\ load.op = "load_page_views" =>
          LET before == load.db_at_call.page_views
              added == AddedSince(before, db_page_views)
          IN  /\ SubSeq(db_page_views, 1, Len(before)) = before
              /\ IsSubSeq(added, SubSeq(InputRows(load.input), 1, Settled(load)))
              /\ load.j = 1 =>
                    IsSubSeq(added, SubSeq(InputRows(load.input), 1, load.i))
    /\ \A n \in PageViewLoads :
          LET h == history[n]
              before == h.db_at_call.page_views
              after == h.db_at_return.page_views
          IN  /\ SubSeq(after, 1, Len(before)) = before
              /\ IsSubSeq(AddedSince(before, after), InputRows(h.input))

\* With batch size 2 the chunk of an accepted record followed by a
\* rejected one has failed and the fallback is about to begin: the table
\* holds the row an earlier call committed and none of the chunk.
C34_Witness ==
    /\ load.op = "load_page_views"
    /\ batch_size = 2
    /\ Len(load.input) = 2
    /\ load.i = 0 /\ load.j = 1
    /\ load.failed_chunks = 1
    /\ load.rollbacks = 1
    /\ ~PageViewViolates(InputRows(load.input)[1])
    /\ PageViewViolates(InputRows(load.input)[2])
    /\ Len(load.db_at_call.page_views) = 1
    /\ db_page_views = load.db_at_call.page_views

\* The step is a single-record insert of the fallback that failed.
RecordDropped ==
    /\ load.op = "load_page_views"
    /\ load.j > 0
    /\ load'.op = "load_page_views"
    /\ load'.failed_records = load.failed_records + 1

\* C35: in load_page_views each record is attempted at most twice, once
\* inside its chunk and once alone in the fallback. A record whose
\* single-record insert fails is rolled back and dropped and is not
\* attempted again, and the fallback goes on with the next record of the
\* chunk and the loop with the next chunk: when the call returns, every
\* record has been attempted.
C35_AtMostTwoAttempts ==
    /\ [](/\ load.op = "load_page_views" =>
                \A k \in DOMAIN load.input :
                   /\ load.tries[k] <= 2
                   /\ k <= Settled(load) => load.tries[k] >= 1
                   /\ (load.j > 0 /\ k > load.i /\ k < load.i + load.j) => load.tries[k] = 2
          /\ \A n \in PageViewLoads :
                /\ \A k \in DOMAIN history[n].input : history[n].tries[k] \in {1, 2}
                /\ history[n].chunks = NumChunks(Len(history[n].input), batch_size))
    /\ [][RecordDropped =>
             LET k == load.i + load.j
                 last == load.j = Len(CurrentBatch)
             IN  /\ db_page_views' = db_page_views
                 /\ load.tries[k] = 1
                 /\ load'.tries[k] = 2
                 /\ load'.rollbacks = load.rollbacks + 1
                 /\ load'.i = (IF last THEN load.i + batch_size ELSE load.i)
                 /\ load'.j = (IF last THEN 0 ELSE load.j + 1)
         ]_vars

\* With batch size 2 the first chunk of a call failed, its first record
\* failed alone as well and was dropped, its second record was inserted
\* alone, and the second chunk was inserted at once.
C35_Witness ==
    \E n \in PageViewLoads :
        LET h == history[n]
        IN  /\ batch_size = 2
            /\ Len(h.input) = 3
            /\ h.tries = <<2, 2, 1>>
            /\ PageViewViolates(InputRows(h.input)[1])
            /\ h.failed_chunks = 1
            /\ h.failed_records = 1
            /\ h.attempts = 4
            /\ h.returned = 2
            /\ h.db_at_return.page_views = SubSeq(InputRows(h.input), 2, 3)

\* C36: the loader never mutates its inputs. From the call of load_all
\* on, the list of page views, the lists of sessions and visitors and the
\* tracker they came from stay as they are, whether the inserts and
\* upserts succeed or fail; the list each loader works on is the list it
\* was given, unchanged from its call to its return.
C36_InputsNotMutated ==
    /\ [](run # NoRun =>
             /\ run.page_views = all_page_views
             /\ run.sessions = out_sessions
             /\ run.visitors = out_visitors
             /\ \A n \in RunCalls : history[n].input = PhaseCall(run, n - run.base).input
             /\ load # NoCall => load.input = PhaseCall(run, Phase + 1).input)
    /\ [][(run # NoRun \/ run' # NoRun) =>
             /\ all_page_views' = all_page_views
             /\ out_sessions' = out_sessions
             /\ out_visitors' = out_visitors
             /\ sessions_by_visitor' = sessions_by_visitor
             /\ (load # NoCall /\ load' # NoCall) => load'.input = load.input
         ]_vars

\* load_all has returned in the pipeline after a failed chunk of page
\* views, a committed upsert of sessions and a failed upsert of visitors.
C36_Witness ==
    /\ run.state = "returned"
    /\ Len(all_page_views) = 3
    /\ history[run.base + 1].failed_chunks >= 1
    /\ history[run.base + 1].returned >= 1
    /\ Len(out_sessions) >= 1
    /\ run.results.sessions = Len(out_sessions)
    /\ Len(out_visitors) >= 1
    /\ history[run.base + 3].failed_chunks >= 1
    /\ run.results.visitors = 0

\* The calls of the loaders, returned or running.
LoaderCalls ==
    {history[n] : n \in DOMAIN history} \cup (IF load # NoCall THEN {load} ELSE {})

\* The step executes an insert or upsert of the running call.
Attempts == load # NoCall /\ load' # NoCall /\ load'.attempts # load.attempts

\* C37: transaction discipline. In the three loaders every insert or
\* upsert that is executed is followed, before the next one starts, by
\* exactly one commit when it succeeded or exactly one rollback when it
\* failed: between attempts and when a loader returns, every attempt has
\* been closed by one of the two and nothing uncommitted is pending.
C37_TransactionDiscipline ==
    /\ [](\A c \in LoaderCalls :
             /\ c.attempts = c.commits + c.rollbacks
             /\ c.rollbacks = c.failed_chunks + c.failed_records)
    /\ [][/\ Attempts =>
                /\ load'.attempts = load.attempts + 1
                /\ \/ /\ load'.commits = load.commits + 1
                      /\ load'.rollbacks = load.rollbacks
                      /\ load'.inserted_count > load.inserted_count
                   \/ /\ load'.commits = load.commits
                      /\ load'.rollbacks = load.rollbacks + 1
                      /\ load'.inserted_count = load.inserted_count
                      /\ Storage' = Storage
          /\ (load # NoCall /\ load' = NoCall) =>
                /\ Storage' = Storage
                /\ history'[Len(history')].db_at_return = Storage
                /\ history'[Len(history')].attempts = load.commits + load.rollbacks
         ]_vars

\* In one load_all a chunk of page views was rolled back and its record
\* committed alone, the upsert of the session was rolled back and the
\* upsert of the visitor committed.
C37_Witness ==
    /\ run.state = "returned"
    /\ history[run.base + 1].attempts = 2
    /\ history[run.base + 1].rollbacks = 1
    /\ history[run.base + 1].commits = 1
    /\ history[run.base + 2].attempts = 1
    /\ history[run.base + 2].rollbacks = 1
    /\ history[run.base + 3].attempts = 1
    /\ history[run.base + 3].commits = 1
    /\ Len(db_page_views) = 1 /\ db_sessions = <<>> /\ Len(db_visitors) = 1

\* load_all has returned and no insert or upsert of it has failed.
FailureFree ==
    /\ run.state = "returned"
    /\ \A n \in RunCalls :
          history[n].failed_chunks = 0 /\ history[n].failed_records = 0

\* The stored page-view rows that carry the session id.
PageViewRowsOf(session_id) ==
    {k \in DOMAIN db_page_views : db_page_views[k].session_id = session_id}

\* The stored session rows of the visitor.
SessionRowsOf(visitor_id) ==
    {k \in DOMAIN db_sessions : db_sessions[k].visitor_id = visitor_id}

\* C38: cross-table consistency after one failure-free run. Starting from
\* empty tables, after a run that added each visitor's records in
\* non-decreasing timestamp order and a load_all without a failed insert
\* or upsert, every stored session row has as many stored page-view rows
\* with its session_id as its page_views_count says, and every stored
\* visitor row has as many stored session rows with its visitor_id as its
\* total_visits says.
C38_CrossTableConsistency ==
    (FailureFree /\ \A v \in Visitors : InOrder(v)) =>
        /\ \A r \in DOMAIN db_sessions :
              Cardinality(PageViewRowsOf(db_sessions[r].session_id)) =
                 db_sessions[r].page_views_count
        /\ \A r \in DOMAIN db_visitors :
              Cardinality(SessionRowsOf(db_visitors[r].visitor_id)) =
                 db_visitors[r].total_visits
        /\ Len(db_page_views) = Len(all_page_views)
        /\ Len(db_sessions) = Len(out_sessions)
        /\ Len(db_visitors) = Len(out_visitors)

\* A failure-free run over three records of one visitor, in order, has
\* stored three page views, the visitor's two sessions with two and one
\* page views, and the visitor with two visits.
C38_Witness ==
    /\ FailureFree
    /\ \A v \in Visitors : InOrder(v)
    /\ Len(db_page_views) = 3
    /\ Len(db_sessions) = 2
    /\ Len(db_visitors) = 1
    /\ db_visitors[1].total_visits = 2
    /\ db_sessions[1].page_views_count = 2
    /\ db_sessions[2].page_views_count = 1
    /\ Cardinality(PageViewRowsOf(db_sessions[1].session_id)) = 2
    /\ Cardinality(PageViewRowsOf(db_sessions[2].session_id)) = 1
====
